---- MODULE Spec2Model ----
(***************************************************************************)
(* Verification model of rustics2d: the order-preserving codec             *)
(* (src/util.rs), the sweep-and-prune broadphase (src/collision/           *)
(* broadphase.rs), the projected boxes (src/collision/aabb.rs), the        *)
(* Graham-scan hull construction and the separating-axis test              *)
(* (src/collision/shapes/convex.rs) and the placements of polygons         *)
(* (src/common/rotation.rs, src/common/transform.rs).                      *)
(*                                                                         *)
(* Number representations                                                  *)
(*   i64  : a function 1..64 -> {0,1}, index 1 is the sign bit (bit 63),   *)
(*          index 64 is bit 0; two's complement.                           *)
(*   f64  : the IEEE-754 binary64 fields [sign, exp, frac], frac being     *)
(*          the 52 fraction bits, most significant first.                  *)
(*   hull coordinates : integers x counting a power of two, x * 2^e; the   *)
(*          differences, products and sums the hull code forms on them     *)
(*          are such numbers too, exact in f64 below 2^1024 and infinite   *)
(*          from there on, with NaN for inf - inf and inf * 0.             *)
(*   normals, boxes, rotations, transforms : f64, every product, sum,      *)
(*          quotient and square root rounded as IEEE-754 rounds it.        *)
(* `as` casts from f64 to i64 saturate (Rust >= 1.45).                     *)
(***************************************************************************)
EXTENDS Integers, Sequences, FiniteSets

VARIABLES
    xs, ys, pairs,      \* SweepAndPrune fields
    status,             \* "ok" | "panicked": outcome of the last call
    projecters,         \* argument of the last batch_insert call
    inserted,           \* objects handed to batch_insert so far
    calls,              \* number of calls made on the SweepAndPrune
    hash_sym,           \* the unordered pairs {a, b} whose two orders the pair
                        \* set's hasher makes a lookup find alike
    unit,               \* which component the current behaviour exercises
    fa, fb,             \* codec: two f64 inputs
    enc, dec,           \* codec: <<encode(fa), encode(fb)>>; <<decode(enc[1])>>
    points, hull,       \* hull: input vertices; <<result of Convex::new>>
    hbox,               \* hull: <<result of Convex::aabb>>
    bpoints, box,       \* Aabb: points of the last build; <<the Aabb>>
    shift, last,        \* Aabb: movement since the last build; last call
    pin, pobj,          \* Projection: two boxes' f64 extents; <<the boxes>>
    pacc, pint,         \* Projection: <<accessor results>>; <<intersect results>>
    shapes, places,     \* SAT: two Convex polygons; their two transforms
    moves,              \* SAT: calls made that change a transform
    collides            \* SAT: the two collides_with calls, each with the
                        \* transforms it was handed and its result

vars == <<xs, ys, pairs, status, projecters, inserted, calls, hash_sym, unit,
          fa, fb, enc, dec, points, hull, hbox, bpoints, box, shift, last,
          pin, pobj, pacc, pint, shapes, places, moves, collides>>

sapVars   == <<xs, ys, pairs, status, projecters, inserted, calls, hash_sym>>
codecVars == <<fa, fb, enc, dec>>
hullVars  == <<points, hull, hbox>>
boxVars   == <<bpoints, box, shift, last>>
projVars  == <<pin, pobj, pacc, pint>>
satVars   == <<shapes, places, moves, collides>>

None == "None"

\* bounds of the model
MaxBatch == 3       \* longest slice handed to batch_insert
MaxCalls == 3       \* calls made on one SweepAndPrune
MaxPairs == 2       \* entries of the pair set in the IdPair specification
MaxPts   == 4       \* longest vertex slice handed to Convex::new
MaxTinyPts == 3     \* longest slice of the 3 x 3 grids: quarters, 2^-34 apart, near 1e308
MaxPolyPts == 4     \* longest vertex slice a placed polygon is built from
MaxBoxPts == 3      \* longest point slice handed to Aabb::new
MaxShift == 8       \* largest movement (in eighths) summed over translate calls
MaxMoves == 1       \* calls that change one of the two transforms of the SAT test

(***************************************************************************)
(* i64 arithmetic on bit vectors                                           *)
(***************************************************************************)
Bits64 == 1..64

I64_MIN == [k \in Bits64 |-> IF k = 1 THEN 1 ELSE 0]
I64_MAX == [k \in Bits64 |-> IF k = 1 THEN 0 ELSE 1]
I64_ZERO == [k \in Bits64 |-> 0]

\* x >> 31 on i64: arithmetic shift, the sign bit fills from the left
Sar31(b) == [k \in Bits64 |-> IF k <= 31 THEN b[1] ELSE b[k - 31]]

BitXor(a, b) == [k \in Bits64 |-> IF a[k] = b[k] THEN 0 ELSE 1]
BitOr(a, b)  == [k \in Bits64 |-> IF a[k] = 1 \/ b[k] = 1 THEN 1 ELSE 0]
BitNot(a)    == [k \in Bits64 |-> 1 - a[k]]

\* the bit vector b written out bit by bit
Tab(b) ==
    << b[1],  b[2],  b[3],  b[4],  b[5],  b[6],  b[7],  b[8],
       b[9],  b[10], b[11], b[12], b[13], b[14], b[15], b[16],
       b[17], b[18], b[19], b[20], b[21], b[22], b[23], b[24],
       b[25], b[26], b[27], b[28], b[29], b[30], b[31], b[32],
       b[33], b[34], b[35], b[36], b[37], b[38], b[39], b[40],
       b[41], b[42], b[43], b[44], b[45], b[46], b[47], b[48],
       b[49], b[50], b[51], b[52], b[53], b[54], b[55], b[56],
       b[57], b[58], b[59], b[60], b[61], b[62], b[63], b[64] >>

\* b + 1 and b - 1 modulo 2^64: a bit flips iff the carry / borrow reaches it
Carry(t) == [k \in Bits64 |->
               IF \A j \in (k + 1)..64 : t[j] = 1 THEN 1 - t[k] ELSE t[k]]
Borrow(t) == [k \in Bits64 |->
                IF \A j \in (k + 1)..64 : t[j] = 0 THEN 1 - t[k] ELSE t[k]]
AddOne(b) == Carry(Tab(b))
SubOne(b) == Borrow(Tab(b))
\* unary minus (two's complement)
Neg64(b) == AddOne(BitNot(b))

\* signed comparison a < b
I64Lt(a, b) ==
    IF a[1] # b[1] THEN a[1] = 1
    ELSE \E k \in Bits64 : a[k] < b[k] /\ \A j \in 1..(k - 1) : a[j] = b[j]
I64Le(a, b) == a = b \/ I64Lt(a, b)
I64Gt(a, b) == I64Lt(b, a)
I64Ge(a, b) == I64Le(b, a)

(***************************************************************************)
(* f64 values and the casts between f64 and i64                            *)
(***************************************************************************)
\* the f64 with the given sign and biased exponent whose fraction starts
\* with the bits of prefix and continues with zeros
F64(sign, exp, prefix) ==
    [sign |-> sign, exp |-> exp,
     frac |-> [k \in 1..52 |-> IF k <= Len(prefix) THEN prefix[k] ELSE 0]]

F64_MAX == [sign |-> 0, exp |-> 2046, frac |-> [k \in 1..52 |-> 1]]
F64_MIN == [sign |-> 1, exp |-> 2046, frac |-> [k \in 1..52 |-> 1]]

F64IsZero(f) == f.exp = 0 /\ \A k \in 1..52 : f.frac[k] = 0
F64IsNaN(f) == f.exp = 2047 /\ \E k \in 1..52 : f.frac[k] = 1

\* magnitude order of two f64: by exponent, then by fraction
F64MagLt(a, b) ==
    \/ a.exp < b.exp
    \/ /\ a.exp = b.exp
       /\ \E k \in 1..52 : /\ a.frac[k] < b.frac[k]
                           /\ \A j \in 1..(k - 1) : a.frac[j] = b.frac[j]

\* a < b and a == b on finite f64
F64Lt(a, b) ==
    IF F64IsZero(a) /\ F64IsZero(b) THEN FALSE
    ELSE IF a.sign # b.sign THEN a.sign = 1
    ELSE IF a.sign = 0 THEN F64MagLt(a, b) ELSE F64MagLt(b, a)
F64Eq(a, b) == a = b \/ (F64IsZero(a) /\ F64IsZero(b))

\* bit i (0 = least significant, 52 = the implicit leading one) of the
\* 53-bit significand of a normal f64
SigBit(f, i) == IF i = 52 THEN 1 ELSE f.frac[52 - i]

\* `input as i64`: truncation toward zero, saturating at the i64 range,
\* and 0 for a NaN
F64ToI64(f) ==
    LET e == f.exp - 1023
        mag == [k \in Bits64 |->
                  LET i == (64 - k) + 52 - e
                  IN  IF i >= 0 /\ i <= 52 THEN SigBit(f, i) ELSE 0]
    IN  IF f.exp = 0 \/ e < 0 \/ F64IsNaN(f) THEN I64_ZERO
        ELSE IF e >= 63 THEN (IF f.sign = 1 THEN I64_MIN ELSE I64_MAX)
        ELSE IF f.sign = 1 THEN Neg64(mag) ELSE mag

\* an i64 of sign `sign` and magnitude bits mag, whose leading one is at
\* index top, as f64: the 52 bits after the leading one, rounded to nearest,
\* ties to even
RoundToF64(sign, mag, top) ==
    LET raw    == [k \in 1..52 |-> IF top + k <= 64 THEN mag[top + k] ELSE 0]
        up     == /\ top + 53 <= 64 /\ mag[top + 53] = 1
                  /\ ((\E j \in (top + 54)..64 : mag[j] = 1) \/ mag[top + 52] = 1)
        carry  == up /\ \A k \in 1..52 : mag[top + k] = 1
    IN  [sign |-> sign,
         exp  |-> IF carry THEN 1023 + (64 - top) + 1 ELSE 1023 + (64 - top),
         frac |-> IF up
                  THEN [k \in 1..52 |->
                          IF \A j \in (k + 1)..52 : mag[top + j] = 1
                          THEN 1 - mag[top + k] ELSE mag[top + k]]
                  ELSE raw]

MagToF64(sign, mag) ==
    RoundToF64(sign, mag,
               CHOOSE k \in Bits64 : mag[k] = 1 /\ \A j \in 1..(k - 1) : mag[j] = 0)

\* `x as f64`: exact up to 53 significant bits, rounded beyond
I64ToF64(b) ==
    IF b = I64_ZERO THEN [sign |-> 0, exp |-> 0, frac |-> [k \in 1..52 |-> 0]]
    ELSE MagToF64(b[1], Tab(IF b[1] = 1 THEN Neg64(b) ELSE b))

(***************************************************************************)
(* src/util.rs                                                             *)
(***************************************************************************)
\* t ^ (m | i64::MIN)
XorMask(t, m) == BitXor(t, BitOr(m, I64_MIN))

\* encode_f64 on the cast input: mask = -(t >> 31) | i64::MIN
encode_cast(t) == XorMask(t, Neg64(Sar31(t)))

encode_f64(input) == encode_cast(F64ToI64(input))

\* mask = ((input >> 31) - 1) | i64::MIN
decode_f64(input) == I64ToF64(XorMask(input, SubOne(Sar31(input))))

(***************************************************************************)
(* src/collision/aabb.rs: projections and their overlap test               *)
(***************************************************************************)
Projection_new(start, end) ==
    [start |-> encode_f64(start), end |-> encode_f64(end)]

\* Projection::dec_start, dec_end, enc_start, enc_end
Projection_dec_start(self) == decode_f64(self.start)
Projection_dec_end(self) == decode_f64(self.start)
Projection_enc_start(self) == self.start
Projection_enc_end(self) == self.end

\* the mutant treats the intervals as half-open
Projection_intersect_open(self, rhs) ==
    \/ I64Ge(self.start, rhs.start) /\ I64Lt(self.start, rhs.end)
    \/ I64Ge(rhs.start, self.start) /\ I64Lt(rhs.start, self.end)

Projection_intersect(self, rhs) ==
    \/ I64Ge(self.start, rhs.start) /\ I64Le(self.start, rhs.end)
    \/ I64Ge(rhs.start, self.start) /\ I64Le(rhs.start, self.end)

ProjectedBox2d_intersect(self, rhs) ==
    Projection_intersect(self.x, rhs.x) /\ Projection_intersect(self.y, rhs.y)

(***************************************************************************)
(* The tracked objects: boxes given by their f64 extents                   *)
(***************************************************************************)
Zero     == F64(0, 0, <<>>)
Half     == F64(0, 1022, <<>>)
One      == F64(0, 1023, <<>>)
OneHalf  == F64(0, 1023, <<1>>)
Two      == F64(0, 1024, <<>>)
Three    == F64(0, 1024, <<1>>)
MinusOne == F64(1, 1023, <<>>)

Objects == {"A", "B", "C", "D", "E"}

\* A=[0,0]-[1,1], B=[2,2]-[3,3], C=[0.5,0.5]-[1.5,1.5], D has a malformed
\* x extent (start > end), E reaches into negative coordinates
Extent(o) ==
    CASE o = "A" -> [x0 |-> Zero,     x1 |-> One,     y0 |-> Zero, y1 |-> One]
      [] o = "B" -> [x0 |-> Two,      x1 |-> Three,   y0 |-> Two,  y1 |-> Three]
      [] o = "C" -> [x0 |-> Half,     x1 |-> OneHalf, y0 |-> Half, y1 |-> OneHalf]
      [] o = "D" -> [x0 |-> Three,    x1 |-> One,     y0 |-> Zero, y1 |-> One]
      [] o = "E" -> [x0 |-> MinusOne, x1 |-> Half,    y0 |-> One,  y1 |-> Two]

ProjectedBox2d_of(e) ==
    [x |-> Projection_new(e.x0, e.x1), y |-> Projection_new(e.y0, e.y1)]

\* Project2d for Aabb
projections2d(o) == ProjectedBox2d_of(Extent(o))

\* Intersect for Aabb
Aabb_intersect(a, b) == ProjectedBox2d_intersect(projections2d(a), projections2d(b))

(***************************************************************************)
(* Rust Vec and HashSet operations (indices are 0-based as in the source)  *)
(***************************************************************************)
InRange(v, i) == i >= 0 /\ i < Len(v)
VecGet(v, i) == v[i + 1]
VecSet(v, i, e) == [v EXCEPT ![i + 1] = e]
VecInsert(v, i, e) == SubSeq(v, 1, i) \o <<e>> \o SubSeq(v, i + 1, Len(v))
\* Vec::with_capacity reserves memory; the vector it returns has length 0
VecWithCapacity(c) == <<>>

\* PartialEq for IdPair
IdPair_eq(self, rhs) ==
    IF self[1] = rhs[1] /\ self[2] = rhs[2] THEN TRUE
    ELSE IF self[2] = rhs[1] /\ self[1] = rhs[2] THEN TRUE
    ELSE FALSE

\* derive(Hash) for IdPair feeds field 0 then field 1 to the hasher: equal
\* tuples hash alike.  A lookup of the swapped tuple meets the stored one
\* when the hasher of the set (its keys are drawn by HashSet::new) gives the
\* two orders the same tag in the probed group, or when T's Hash makes the
\* two orders hash alike; sym is the set of the unordered pairs for which
\* it does (the table of the model stays within one group)
IdPair_hash_eq(p, q, sym) ==
    p = q \/ (p[1] = q[2] /\ p[2] = q[1] /\ {p[1], p[2]} \in sym)

\* the entries of set s a HashSet lookup of key k finds
HashSetFind(s, k, sym) == {q \in s : IdPair_hash_eq(q, k, sym) /\ IdPair_eq(q, k)}

HashSet_insert(s, k, sym) == IF HashSetFind(s, k, sym) # {} THEN s ELSE s \cup {k}
HashSet_remove(s, k, sym) == s \ HashSetFind(s, k, sym)

(***************************************************************************)
(* src/collision/broadphase.rs                                             *)
(***************************************************************************)
min_sentinel == [projecter |-> None, is_start |-> FALSE, val |-> encode_f64(F64_MIN)]
max_sentinel == [projecter |-> None, is_start |-> FALSE, val |-> encode_f64(F64_MAX)]

\* SweepAndPrune::new
SweepAndPrune_new ==
    [xs |-> <<min_sentinel, max_sentinel>>,
     ys |-> <<min_sentinel, max_sentinel>>,
     pairs |-> {},
     status |-> "ok"]

Panicked(self) == [self EXCEPT !.status = "panicked"]

RECURSIVE build_points(_, _, _, _, _)
\* lines 80-102: one round of the loop, for object o with projections p
build_step(batch, i, j, lxs, lys, o, p) ==
    IF ~InRange(lxs, j) \/ ~InRange(lxs, j + 1)
       \/ ~InRange(lys, j) \/ ~InRange(lys, j + 1)
    THEN [panic |-> TRUE, xs |-> lxs, ys |-> lys, j |-> j]
    ELSE build_points(batch, i + 1, j + 2,
           VecSet(VecSet(lxs, j, [projecter |-> o, is_start |-> TRUE, val |-> p.x.start]),
                  j + 1, [projecter |-> o, is_start |-> FALSE, val |-> p.x.end]),
           VecSet(VecSet(lys, j, [projecter |-> o, is_start |-> TRUE, val |-> p.y.start]),
                  j + 1, [projecter |-> o, is_start |-> FALSE, val |-> p.y.end]))

\* lines 74-103: fill the local endpoint vectors by index
build_points(batch, i, j, lxs, lys) ==
    IF ~(i < Len(batch)) THEN [panic |-> FALSE, xs |-> lxs, ys |-> lys, j |-> j]
    ELSE build_step(batch, i, j, lxs, lys, batch[i + 1], projections2d(batch[i + 1]))

\* SweepPoint::compare: a.val.cmp(&b.val)
compare(a, b) == IF I64Lt(a.val, b.val) THEN "Less"
                 ELSE IF a.val = b.val THEN "Equal" ELSE "Greater"

\* insert e into the sorted rest after the elements not greater than it
SortedInsert(rest, e, pos) ==
    SubSeq(rest, 1, pos) \o <<e>> \o SubSeq(rest, pos + 1, Len(rest))
SortedPlace(rest, e) ==
    SortedInsert(rest, e, Cardinality({k \in 1..Len(rest) : compare(rest[k], e) # "Greater"}))

\* Vec::sort_by(SweepPoint::compare): a stable sort
RECURSIVE sort_by_compare(_)
sort_by_compare(v) ==
    IF Len(v) <= 1 THEN v
    ELSE SortedPlace(sort_by_compare(SubSeq(v, 1, Len(v) - 1)), v[Len(v)])

\* lines 114-117: shift larger elements right
RECURSIVE shift_x(_, _, _)
shift_x(v, i, x) ==
    IF ~InRange(v, i) THEN [panic |-> TRUE, v |-> v, i |-> i]
    ELSE IF I64Gt(VecGet(v, i).val, x.val)
    THEN IF ~InRange(v, i + 1) THEN [panic |-> TRUE, v |-> v, i |-> i]
         ELSE IF i = 0       \* i - 1 leaves the usize range
         THEN [panic |-> TRUE, v |-> VecSet(v, i + 1, VecGet(v, i)), i |-> i]
         ELSE shift_x(VecSet(v, i + 1, VecGet(v, i)), i - 1, x)
    ELSE [panic |-> FALSE, v |-> v, i |-> i]

RECURSIVE merge_x(_, _, _, _)
\* line 118, after the shifting r of element x
place_x(r, x, lxs, k) ==
    IF r.panic \/ ~InRange(r.v, r.i + 1) THEN [panic |-> TRUE, v |-> r.v]
    ELSE merge_x(VecSet(r.v, r.i + 1, x), r.i, lxs, k + 1)

\* lines 109-119: merge the sorted batch lxs (from element k on) into self.xs
merge_x(v, i, lxs, k) ==
    IF k > Len(lxs) THEN [panic |-> FALSE, v |-> v]
    ELSE IF i > Len(v) \/ i < 0 THEN [panic |-> TRUE, v |-> v]
    ELSE IF i = 0            \* inserted at 0, then i - 1 leaves the usize range
    THEN [panic |-> TRUE, v |-> VecInsert(v, i, lxs[k])]
    ELSE place_x(shift_x(VecInsert(v, i, lxs[k]), i - 1, lxs[k]), lxs[k], lxs, k)

\* lines 133-137: a start endpoint passes an end endpoint
pairs_add(ps, y, swap, sym) ==
    IF y.is_start /\ ~swap.is_start /\ Aabb_intersect(y.projecter, swap.projecter)
    THEN HashSet_insert(ps, <<y.projecter, swap.projecter>>, sym) ELSE ps

\* lines 138-140: an end endpoint passes a start endpoint
pairs_drop(ps, y, swap, sym) ==
    IF ~y.is_start /\ swap.is_start
    THEN HashSet_remove(ps, <<y.projecter, swap.projecter>>, sym) ELSE ps

RECURSIVE shift_y(_, _, _, _, _, _)
\* lines 142-143, ps being the pair set after lines 133-140
shift_y_store(v, ps, i, y, j, sym) ==
    IF ~InRange(v, j + 1) THEN [panic |-> TRUE, v |-> v, pairs |-> ps, i |-> i]
    ELSE IF i = 0            \* i - 1 leaves the usize range
    THEN [panic |-> TRUE, v |-> VecSet(v, j + 1, VecGet(v, i)), pairs |-> ps, i |-> i]
    ELSE shift_y(VecSet(v, j + 1, VecGet(v, i)), ps, i - 1, y, j, sym)

\* lines 128-144: shift larger elements, updating the pair set on crossings;
\* unwrap() panics on the absent owner of a sentinel
shift_y(v, ps, i, y, j, sym) ==
    IF ~InRange(v, i) THEN [panic |-> TRUE, v |-> v, pairs |-> ps, i |-> i]
    ELSE IF I64Gt(VecGet(v, i).val, y.val)
    THEN IF y.projecter = None \/ VecGet(v, i).projecter = None
         THEN [panic |-> TRUE, v |-> v, pairs |-> ps, i |-> i]
         ELSE shift_y_store(v, pairs_drop(pairs_add(ps, y, VecGet(v, i), sym),
                                          y, VecGet(v, i), sym),
                            i, y, j, sym)
    ELSE [panic |-> FALSE, v |-> v, pairs |-> ps, i |-> i]

RECURSIVE merge_y(_, _, _, _, _, _, _)
\* line 145, after the shifting r of element y
place_y(r, y, lys, k, j, sym) ==
    IF r.panic \/ ~InRange(r.v, r.i + 1)
    THEN [panic |-> TRUE, v |-> r.v, pairs |-> r.pairs]
    ELSE merge_y(VecSet(r.v, r.i + 1, y), r.pairs, r.i, lys, k + 1, j, sym)

\* lines 123-146: merge the sorted batch lys (from element k on) into self.ys
merge_y(v, ps, i, lys, k, j, sym) ==
    IF k > Len(lys) THEN [panic |-> FALSE, v |-> v, pairs |-> ps]
    ELSE IF i > Len(v) \/ i < 0 THEN [panic |-> TRUE, v |-> v, pairs |-> ps]
    ELSE IF i = 0            \* inserted at 0, then i - 1 leaves the usize range
    THEN [panic |-> TRUE, v |-> VecInsert(v, i, lys[k]), pairs |-> ps]
    ELSE place_y(shift_y(VecInsert(v, i, lys[k]), ps, i - 1, lys[k], j, sym),
                 lys[k], lys, k, j, sym)

\* lines 121-146 on the state s1 left by the x merge
batch_insert_ys(s1, my) ==
    IF my.panic THEN Panicked([s1 EXCEPT !.ys = my.v, !.pairs = my.pairs])
    ELSE [s1 EXCEPT !.ys = my.v, !.pairs = my.pairs]

\* lines 107-119, then the y merge of the sorted batch sy
batch_insert_xs(self, mx, sy, j, sym) ==
    IF mx.panic THEN Panicked([self EXCEPT !.xs = mx.v])
    ELSE batch_insert_ys([self EXCEPT !.xs = mx.v],
                         merge_y(self.ys, self.pairs, Len(self.ys) - 1, sy, 1, j, sym))

\* lines 104-105 on the vectors b built by the loop
batch_insert_built(self, b, sym) ==
    IF b.panic THEN Panicked(self)
    ELSE batch_insert_xs(self,
                         merge_x(self.xs, Len(self.xs) - 1, sort_by_compare(b.xs), 1),
                         sort_by_compare(b.ys), b.j, sym)

\* the mutant reads the first projecter before it tests the length
batch_insert_reads_first(self, batch, sym) ==
    IF ~InRange(batch, 0) THEN Panicked(self) ELSE self

\* SweepAndPrune::batch_insert
batch_insert(self, batch, sym) ==
    IF Len(batch) = 0 THEN self
    ELSE batch_insert_built(self,
           build_points(batch, 0, 0, VecWithCapacity(2 * Len(batch)),
                        VecWithCapacity(2 * Len(batch))),
           sym)

(***************************************************************************)
(* f64 arithmetic (IEEE 754 binary64, round to nearest, ties to even), as  *)
(* the operators *, +, /, and f64::sqrt compute it.  A significand is a    *)
(* natural number written in digits of BigBase, least significant first,   *)
(* in a tuple of BigWidth digits; an f64 is m * 2^e for its significand m  *)
(* and F64Exp e.  Every NaN is F64_NAN: sign and payload are not tracked.  *)
(***************************************************************************)
BigBase == 16384
BigBits == 14
BigWidth == 9
BigZero == <<0, 0, 0, 0, 0, 0, 0, 0, 0>>
BigOne  == <<1, 0, 0, 0, 0, 0, 0, 0, 0>>

Pow2(r) == <<1, 2, 4, 8, 16, 32, 64, 128, 256, 512, 1024, 2048, 4096, 8192, 16384>>[r + 1]

\* digit i of d, 0 outside the tuple
Dig(d, i) == IF i >= 1 /\ i <= BigWidth THEN d[i] ELSE 0

\* the digits of the number whose columns are c: each column passes its
\* carry (its borrow, when negative) to the next
BigProp(c) ==
    LET t1 == c[1]
        t2 == c[2] + (t1 \div BigBase)
        t3 == c[3] + (t2 \div BigBase)
        t4 == c[4] + (t3 \div BigBase)
        t5 == c[5] + (t4 \div BigBase)
        t6 == c[6] + (t5 \div BigBase)
        t7 == c[7] + (t6 \div BigBase)
        t8 == c[8] + (t7 \div BigBase)
        t9 == c[9] + (t8 \div BigBase)
    IN  <<t1 % BigBase, t2 % BigBase, t3 % BigBase, t4 % BigBase, t5 % BigBase,
          t6 % BigBase, t7 % BigBase, t8 % BigBase, t9 % BigBase>>

BigAdd(a, b) ==
    BigProp(<<a[1] + b[1], a[2] + b[2], a[3] + b[3], a[4] + b[4], a[5] + b[5],
              a[6] + b[6], a[7] + b[7], a[8] + b[8], a[9] + b[9]>>)

\* a - b for a >= b
BigSub(a, b) ==
    BigProp(<<a[1] - b[1], a[2] - b[2], a[3] - b[3], a[4] - b[4], a[5] - b[5],
              a[6] - b[6], a[7] - b[7], a[8] - b[8], a[9] - b[9]>>)

\* a * b for a, b below 2^56 (four digits each)
BigMul(a, b) ==
    BigProp(<<a[1] * b[1],
              a[1] * b[2] + a[2] * b[1],
              a[1] * b[3] + a[2] * b[2] + a[3] * b[1],
              a[1] * b[4] + a[2] * b[3] + a[3] * b[2] + a[4] * b[1],
              a[2] * b[4] + a[3] * b[3] + a[4] * b[2],
              a[3] * b[4] + a[4] * b[3],
              a[4] * b[4], 0, 0>>)

BigLt(a, b) ==
    \E k \in 1..BigWidth : a[k] < b[k] /\ \A j \in (k + 1)..BigWidth : a[j] = b[j]

\* d * 2^(BigBits * q) * p with p = 2^r and cp = 2^(BigBits - r), the bits
\* past the width dropped
BigShlBy(d, q, p, cp) ==
    <<((Dig(d, 1 - q) * p) % BigBase) + Dig(d, 0 - q) \div cp,
      ((Dig(d, 2 - q) * p) % BigBase) + Dig(d, 1 - q) \div cp,
      ((Dig(d, 3 - q) * p) % BigBase) + Dig(d, 2 - q) \div cp,
      ((Dig(d, 4 - q) * p) % BigBase) + Dig(d, 3 - q) \div cp,
      ((Dig(d, 5 - q) * p) % BigBase) + Dig(d, 4 - q) \div cp,
      ((Dig(d, 6 - q) * p) % BigBase) + Dig(d, 5 - q) \div cp,
      ((Dig(d, 7 - q) * p) % BigBase) + Dig(d, 6 - q) \div cp,
      ((Dig(d, 8 - q) * p) % BigBase) + Dig(d, 7 - q) \div cp,
      ((Dig(d, 9 - q) * p) % BigBase) + Dig(d, 8 - q) \div cp>>

\* d * 2^k
BigShl(d, k) == BigShlBy(d, k \div BigBits, Pow2(k % BigBits), Pow2(BigBits - (k % BigBits)))

\* d div (2^(BigBits * q) * p)
BigShrBy(d, q, p, cp) ==
    <<(Dig(d, 1 + q) \div p) + (Dig(d, 2 + q) % p) * cp,
      (Dig(d, 2 + q) \div p) + (Dig(d, 3 + q) % p) * cp,
      (Dig(d, 3 + q) \div p) + (Dig(d, 4 + q) % p) * cp,
      (Dig(d, 4 + q) \div p) + (Dig(d, 5 + q) % p) * cp,
      (Dig(d, 5 + q) \div p) + (Dig(d, 6 + q) % p) * cp,
      (Dig(d, 6 + q) \div p) + (Dig(d, 7 + q) % p) * cp,
      (Dig(d, 7 + q) \div p) + (Dig(d, 8 + q) % p) * cp,
      (Dig(d, 8 + q) \div p) + (Dig(d, 9 + q) % p) * cp,
      (Dig(d, 9 + q) \div p) + (Dig(d, 10 + q) % p) * cp>>

\* d div 2^k
BigShr(d, k) == BigShrBy(d, k \div BigBits, Pow2(k % BigBits), Pow2(BigBits - (k % BigBits)))

\* bit i (0 = least significant) of d
BigBit(d, i) == (Dig(d, i \div BigBits + 1) \div Pow2(i % BigBits)) % 2

\* the number of bits of d > 0
BigLenAt(d, top) ==
    BigBits * (top - 1) + (CHOOSE n \in 1..BigBits : Pow2(n - 1) <= d[top] /\ d[top] < Pow2(n))
BigLen(d) ==
    BigLenAt(d, CHOOSE k \in 1..BigWidth : d[k] # 0 /\ \A j \in (k + 1)..BigWidth : d[j] = 0)

\* the fraction bits of the significand q, most significant first
F64Frac(q) == [k \in 1..52 |-> BigBit(q, 52 - k)]

F64_NAN == [sign |-> 0, exp |-> 2047, frac |-> F64Frac(BigShl(BigOne, 51))]
F64Inf(sign) == [sign |-> sign, exp |-> 2047, frac |-> F64Frac(BigZero)]
F64Zero(sign) == [sign |-> sign, exp |-> 0, frac |-> F64Frac(BigZero)]
F64IsInf(f) == f.exp = 2047 /\ \A k \in 1..52 : f.frac[k] = 0
Xor(a, b) == IF a = b THEN 0 ELSE 1

\* bit p of the significand: the fraction, and the leading one of a normal f64
F64SigBit(f, p) ==
    IF p > 52 THEN 0 ELSE IF p = 52 THEN (IF f.exp = 0 THEN 0 ELSE 1) ELSE f.frac[52 - p]

RECURSIVE F64SigDigit(_, _, _)
\* the digit of the significand that starts at bit lo, from its bit i on
F64SigDigit(f, lo, i) ==
    IF i >= BigBits THEN 0
    ELSE F64SigBit(f, lo + i) + 2 * F64SigDigit(f, lo, i + 1)

\* significand and exponent of a finite f64: its value is F64Sig * 2^F64Exp
F64Sig(f) ==
    <<F64SigDigit(f, 0, 0), F64SigDigit(f, BigBits, 0), F64SigDigit(f, 2 * BigBits, 0),
      F64SigDigit(f, 3 * BigBits, 0), 0, 0, 0, 0, 0>>
F64Exp(f) == IF f.exp = 0 THEN -1074 ELSE f.exp - 1075

\* the f64 q * 2^t for q < 2^53 with q >= 2^52 or t = -1074
F64Pack(sign, q, t) ==
    IF BigBit(q, 52) = 1
    THEN IF t + 1075 >= 2047 THEN F64Inf(sign)
         ELSE [sign |-> sign, exp |-> t + 1075, frac |-> F64Frac(q)]
    ELSE [sign |-> sign, exp |-> 0, frac |-> F64Frac(q)]

\* n div 2^s for s > 0, rounded to nearest and on a tie to even; sticky says
\* that n stands for a little more than n
BigRounded(n, s, sticky) ==
    IF /\ BigBit(n, s - 1) = 1
       /\ \/ sticky
          \/ BigShl(BigShr(n, s - 1), s - 1) # n
          \/ BigBit(n, s) = 1
    THEN BigAdd(BigShr(n, s), BigOne)
    ELSE BigShr(n, s)

\* the f64 q * 2^t after a rounding, which may have carried into bit 53
F64Carried(sign, q, t) ==
    IF BigBit(q, 53) = 1 THEN F64Pack(sign, BigShr(q, 1), t + 1) ELSE F64Pack(sign, q, t)

\* n * 2^e (and, when sticky, a little more) rounded at the unit 2^t
F64RoundAt(sign, n, e, sticky, t) ==
    F64Carried(sign, IF t <= e THEN BigShl(n, e - t) ELSE BigRounded(n, t - e, sticky), t)

\* the f64 nearest to n * 2^e, ties to even
F64Round(sign, n, e, sticky) ==
    IF n = BigZero THEN F64Zero(sign)
    ELSE F64RoundAt(sign, n, e, sticky,
                    IF e + BigLen(n) - 53 > -1074 THEN e + BigLen(n) - 53 ELSE -1074)

\* a is a power of two and a normal f64
F64IsPow2(a) == a.exp >= 1 /\ a.exp <= 2046 /\ \A k \in 1..52 : a.frac[k] = 0

\* the normal f64 a times 2^k, exact while the result is a normal f64
F64ScalesBy(a, k) == a.exp >= 1 /\ a.exp <= 2046 /\ a.exp + k >= 1 /\ a.exp + k <= 2046
F64Scaled(sign, a, k) == [sign |-> sign, exp |-> a.exp + k, frac |-> a.frac]

\* a * b: a product with zero or a power of two needs no rounding
F64Mul(a, b) ==
    IF F64IsNaN(a) \/ F64IsNaN(b) THEN F64_NAN
    ELSE IF (F64IsInf(a) /\ F64IsZero(b)) \/ (F64IsZero(a) /\ F64IsInf(b)) THEN F64_NAN
    ELSE IF F64IsInf(a) \/ F64IsInf(b) THEN F64Inf(Xor(a.sign, b.sign))
    ELSE IF F64IsZero(a) \/ F64IsZero(b) THEN F64Zero(Xor(a.sign, b.sign))
    ELSE IF F64IsPow2(b) /\ F64ScalesBy(a, b.exp - 1023)
    THEN F64Scaled(Xor(a.sign, b.sign), a, b.exp - 1023)
    ELSE IF F64IsPow2(a) /\ F64ScalesBy(b, a.exp - 1023)
    THEN F64Scaled(Xor(a.sign, b.sign), b, a.exp - 1023)
    ELSE F64Round(Xor(a.sign, b.sign), BigMul(F64Sig(a), F64Sig(b)), F64Exp(a) + F64Exp(b), FALSE)

\* the sum of sa * 2^e with sign sga and sb * 2^e with sign sgb
F64AddAligned(sga, sa, sgb, sb, e, sticky) ==
    F64Round(IF sga = sgb THEN sga
             ELSE IF sa = sb THEN 0 ELSE IF BigLt(sa, sb) THEN sgb ELSE sga,
             IF sga = sgb THEN BigAdd(sa, sb)
             ELSE IF BigLt(sa, sb) THEN BigSub(sb, sa) ELSE BigSub(sa, sb),
             e, sticky)

\* hi + lo for finite nonzero hi, lo with d = F64Exp(hi) - F64Exp(lo) >= 0:
\* exact when d <= 60, and otherwise hi and a little more or less
F64AddOrdered(hi, lo, d) ==
    IF d > 60
    THEN F64AddAligned(hi.sign, BigShl(F64Sig(hi), 2),
                       lo.sign, IF hi.sign = lo.sign THEN BigZero ELSE BigOne,
                       F64Exp(hi) - 2, TRUE)
    ELSE F64AddAligned(hi.sign, BigShl(F64Sig(hi), d), lo.sign, F64Sig(lo), F64Exp(lo), FALSE)

\* a + b
F64Add(a, b) ==
    IF F64IsNaN(a) \/ F64IsNaN(b) THEN F64_NAN
    ELSE IF F64IsInf(a) THEN (IF F64IsInf(b) /\ a.sign # b.sign THEN F64_NAN ELSE a)
    ELSE IF F64IsInf(b) THEN b
    ELSE IF F64IsZero(a) THEN (IF F64IsZero(b) /\ a.sign # b.sign THEN F64Zero(0) ELSE b)
    ELSE IF F64IsZero(b) THEN a
    ELSE IF F64Exp(a) >= F64Exp(b) THEN F64AddOrdered(a, b, F64Exp(a) - F64Exp(b))
    ELSE F64AddOrdered(b, a, F64Exp(b) - F64Exp(a))

\* -a and a - b
F64Neg(a) == [a EXCEPT !.sign = 1 - a.sign]
F64Sub(a, b) == F64Add(a, F64Neg(b))

\* r + h * 2^i
BigStep(r, h, i) == BigAdd(r, BigShl(<<h, 0, 0, 0, 0, 0, 0, 0, 0>>, i))

\* c * c <= n for a root (d is <<>>), c * d <= n for a quotient
BigFits(n, d, c) == ~BigLt(n, BigMul(c, IF d = <<>> THEN c ELSE d))

\* q with bit i + b set if q still fits then
BigTry(n, d, q, c) == IF BigFits(n, d, c) THEN c ELSE q
BigSetBit(n, d, q, i, b) == BigTry(n, d, q, BigStep(q, Pow2(b), i))

\* q with its four bits from i on set as far as q still fits
BigSearchStep(n, d, q, i) ==
    BigSetBit(n, d, BigSetBit(n, d, BigSetBit(n, d, BigSetBit(n, d, q, i, 3), i, 2), i, 1), i, 0)

RECURSIVE BigSearch(_, _, _, _)
\* the largest number below 2^56 that fits, given its bits q above bit i + 3;
\* once q meets n exactly, the bits below are zero
BigSearch(n, d, q, i) ==
    IF i < 0 \/ BigMul(q, IF d = <<>> THEN q ELSE d) = n THEN q
    ELSE BigSearch(n, d, BigSearchStep(n, d, q, i), i - 4)

\* n div d below 2^56, and the integer root of n < 2^112
BigQuot(n, d) == BigSearch(n, d, BigZero, 52)
BigRoot(n) == BigSearch(n, <<>>, BigZero, 52)

\* sqrt(n * 2^e) for e even and n of 107 or 108 bits, root its integer root
F64SqrtOf(n, e, root) == F64Round(0, root, e \div 2, BigMul(root, root) # n)

\* the significand m scaled by 2^k to 107 or 108 bits and an even exponent
F64SqrtScaled(m, e, k) == F64SqrtOf(BigShl(m, k), e - k, BigRoot(BigShl(m, k)))

\* f64::sqrt
F64Sqrt(a) ==
    IF F64IsNaN(a) THEN F64_NAN
    ELSE IF F64IsZero(a) THEN a
    ELSE IF a.sign = 1 THEN F64_NAN
    ELSE IF F64IsInf(a) THEN a
    ELSE F64SqrtScaled(F64Sig(a), F64Exp(a),
                       IF (F64Exp(a) - (107 - BigLen(F64Sig(a)))) % 2 = 0
                       THEN 107 - BigLen(F64Sig(a)) ELSE 108 - BigLen(F64Sig(a)))

\* (n * 2^e) / d with quot = n div d of 55 or 56 bits
F64DivOf(sign, n, d, e, quot) == F64Round(sign, quot, e, BigMul(quot, d) # n)

\* ma * 2^ea / (mb * 2^eb) for 53-bit ma and mb
F64DivScaled(sign, ma, ea, mb, eb) ==
    F64DivOf(sign, BigShl(ma, 55), mb, ea - eb - 55, BigQuot(BigShl(ma, 55), mb))

\* a / b: a quotient by a power of two needs no rounding
F64Div(a, b) ==
    IF F64IsNaN(a) \/ F64IsNaN(b) THEN F64_NAN
    ELSE IF (F64IsInf(a) /\ F64IsInf(b)) \/ (F64IsZero(a) /\ F64IsZero(b)) THEN F64_NAN
    ELSE IF F64IsInf(a) \/ F64IsZero(b) THEN F64Inf(Xor(a.sign, b.sign))
    ELSE IF F64IsInf(b) \/ F64IsZero(a) THEN F64Zero(Xor(a.sign, b.sign))
    ELSE IF F64IsPow2(b) /\ F64ScalesBy(a, 1023 - b.exp)
    THEN F64Scaled(Xor(a.sign, b.sign), a, 1023 - b.exp)
    ELSE F64DivScaled(Xor(a.sign, b.sign),
                      BigShl(F64Sig(a), 53 - BigLen(F64Sig(a))),
                      F64Exp(a) - (53 - BigLen(F64Sig(a))),
                      BigShl(F64Sig(b), 53 - BigLen(F64Sig(b))),
                      F64Exp(b) - (53 - BigLen(F64Sig(b))))

\* a > b on f64: false whenever one side is NaN
F64Gt(a, b) == ~F64IsNaN(a) /\ ~F64IsNaN(b) /\ F64Lt(b, a)

(***************************************************************************)
(* src/collision/shapes/convex.rs: hull construction.  A Vec2d handed to   *)
(* Convex::new is [x, y, e], the point (x * 2^e, y * 2^e) with integers x  *)
(* and y; the points of one slice share e.  The quarters of GridDen = 4    *)
(* are e = -2.  The numbers the hull code computes from such points are    *)
(* integers times a power of two as well, exact in f64 until they leave    *)
(* its range.                                                              *)
(***************************************************************************)
GridDen == 4
GridExp == -(CHOOSE t \in 0..30 : 2^t = GridDen)

Abs(n) == IF n < 0 THEN -n ELSE n

\* Vec2d::new(x * 2^e, y * 2^e)
Vec2d_new(x, y, e) == [x |-> x, y |-> y, e |-> e]

\* the position of the leading one of m > 0
TopBit(m) == CHOOSE t \in 0..30 : 2^t <= m /\ m < 2^(t + 1)

\* ---- the f64 the hull code computes with: n * 2^e, an infinity of sign n,
\*      or NaN; the zero is Dy(0, 0) ----
DyNaN == [k |-> "nan", n |-> 0, e |-> 0]
DyInf(sign) == [k |-> "inf", n |-> sign, e |-> 0]

\* n * 2^e as f64: itself below 2^1024, an infinity from there on
Dy(n, e) ==
    IF n = 0 THEN [k |-> "fin", n |-> 0, e |-> 0]
    ELSE IF TopBit(Abs(n)) + e >= 1024 THEN DyInf(IF n < 0 THEN -1 ELSE 1)
    ELSE [k |-> "fin", n |-> n, e |-> e]

Sgn(n) == IF n < 0 THEN -1 ELSE IF n > 0 THEN 1 ELSE 0

\* -a and a.abs()
Dy_neg(a) == [a EXCEPT !.n = -a.n]
Dy_abs(a) == [a EXCEPT !.n = Abs(a.n)]

\* a + b
Dy_add(a, b) ==
    IF a.k = "nan" \/ b.k = "nan" THEN DyNaN
    ELSE IF a.k = "inf" THEN (IF b.k = "inf" /\ b.n # a.n THEN DyNaN ELSE a)
    ELSE IF b.k = "inf" THEN b
    ELSE IF a.n = 0 THEN b
    ELSE IF b.n = 0 THEN a
    ELSE IF a.e <= b.e THEN Dy(a.n + b.n * 2^(b.e - a.e), a.e)
    ELSE Dy(a.n * 2^(a.e - b.e) + b.n, b.e)

\* a - b
Dy_sub(a, b) == Dy_add(a, Dy_neg(b))

\* a * b
Dy_mul(a, b) ==
    IF a.k = "nan" \/ b.k = "nan" THEN DyNaN
    ELSE IF a.k = "inf" \/ b.k = "inf"
    THEN (IF a.n = 0 \/ b.n = 0 THEN DyNaN ELSE DyInf(Sgn(a.n) * Sgn(b.n)))
    ELSE Dy(a.n * b.n, a.e + b.e)

\* a < b and a >= b: false whenever one side is NaN
Dy_lt(a, b) == Dy_sub(a, b).k # "nan" /\ Dy_sub(a, b).n < 0
Dy_ge(a, b) == a.k # "nan" /\ b.k # "nan" /\ ~Dy_lt(a, b)

\* the f64 fields of a that is not NaN
Dy_f64(a) ==
    IF a.k = "inf"
    THEN [sign |-> IF a.n < 0 THEN 1 ELSE 0, exp |-> 2047, frac |-> [k \in 1..52 |-> 0]]
    ELSE IF a.n = 0 THEN [sign |-> 0, exp |-> 0, frac |-> [k \in 1..52 |-> 0]]
    ELSE [sign |-> IF a.n < 0 THEN 1 ELSE 0,
          exp |-> 1023 + TopBit(Abs(a.n)) + a.e,
          frac |-> [k \in 1..52 |->
                      IF k <= TopBit(Abs(a.n))
                      THEN (Abs(a.n) \div 2^(TopBit(Abs(a.n)) - k)) % 2 ELSE 0]]

\* util.rs line 3: 1e-10, the f64 0x3DDB7CDFD9D7BDBB
THRESHOLD ==
    [sign |-> 0, exp |-> 989,
     frac |-> <<1,0,1,1,0,1,1,1,1,1,0,0,1,1,0,1,1,1,1,1,1,1,0,1,1,0,
                0,1,1,1,0,1,0,1,1,1,1,0,1,1,1,1,0,1,1,0,1,1,1,0,1,1>>]

\* util::feq, line 9 on diff
feq_diff(diff) == Dy_ge(diff, Dy(0, 0)) /\ F64Lt(Dy_f64(diff), THRESHOLD)

\* util::feq
feq(f1, f2) == feq_diff(Dy_abs(Dy_sub(f1, f2)))

\* the coordinates of a Vec2d
Vec2d_x(p) == Dy(p.x, p.e)
Vec2d_y(p) == Dy(p.y, p.e)

\* line 207: the cross product of p2 - p1 and p3 - p1
cross_of(p1, p2, p3) ==
    Dy_sub(Dy_mul(Dy_sub(Vec2d_x(p2), Vec2d_x(p1)), Dy_sub(Vec2d_y(p3), Vec2d_y(p1))),
           Dy_mul(Dy_sub(Vec2d_y(p2), Vec2d_y(p1)), Dy_sub(Vec2d_x(p3), Vec2d_x(p1))))

\* lines 208-214
angle_of(x) ==
    IF feq(x, Dy(0, 0)) THEN "Collinear"
    ELSE IF Dy_lt(x, Dy(0, 0)) THEN "Clockwise"
    ELSE "CounterClockwise"

vertex_angle(p1, p2, p3) == angle_of(cross_of(p1, p2, p3))

dist_sq(p1, p2) ==
    Dy_add(Dy_mul(Dy_sub(Vec2d_x(p1), Vec2d_x(p2)), Dy_sub(Vec2d_x(p1), Vec2d_x(p2))),
           Dy_mul(Dy_sub(Vec2d_y(p1), Vec2d_y(p2)), Dy_sub(Vec2d_y(p1), Vec2d_y(p2))))

\* line 231 for the point p and the lowest point so far
is_lower(p, lowest) ==
    \/ Dy_lt(Vec2d_y(p), Vec2d_y(lowest))
    \/ feq(Vec2d_y(p), Vec2d_y(lowest)) /\ Dy_lt(Vec2d_x(p), Vec2d_x(lowest))

\* lines 230-236: scan from index i with the lowest point so far at index j
RECURSIVE lowest_y_scan(_, _, _)
lowest_y_scan(vertices, i, j) ==
    IF ~(i < Len(vertices)) THEN j
    ELSE IF is_lower(VecGet(vertices, i), VecGet(vertices, j))
    THEN lowest_y_scan(vertices, i + 1, i)
    ELSE lowest_y_scan(vertices, i + 1, j)

lowest_y_index(vertices) == lowest_y_scan(vertices, 0, 0)

\* clone.swap(a, b)
VecSwap(v, a, b) ==
    [k \in 1..Len(v) |-> IF k = a + 1 THEN v[b + 1] ELSE IF k = b + 1 THEN v[a + 1] ELSE v[k]]

\* lines 161-164
polar_dist(ds1, ds2) == IF Dy_ge(ds2, ds1) THEN "Less" ELSE "Greater"

\* lines 157-168: the comparator of the polar sort about sentinel
polar_order(angle, sentinel, p1, p2) ==
    IF angle = "Collinear" THEN polar_dist(dist_sq(sentinel, p1), dist_sq(sentinel, p2))
    ELSE IF angle = "Clockwise" THEN "Greater"
    ELSE "Less"
polar_compare(sentinel, p1, p2) ==
    polar_order(vertex_angle(sentinel, p1, p2), sentinel, p1, p2)

\* the number of leading elements of the sorted rest that e stays behind:
\* e moves toward the front while it compares Less than its left neighbour
RECURSIVE polar_pos(_, _, _, _)
polar_pos(sentinel, rest, e, k) ==
    IF k = 0 THEN 0
    ELSE IF polar_compare(sentinel, e, rest[k]) = "Less"
    THEN polar_pos(sentinel, rest, e, k - 1)
    ELSE k

\* clone.sort_by(..): insertion sort, as the slice sort does on short slices
RECURSIVE polar_sort(_, _)
polar_place(sentinel, rest, e) ==
    SortedInsert(rest, e, polar_pos(sentinel, rest, e, Len(rest)))
polar_sort(sentinel, v) ==
    IF Len(v) <= 1 THEN v
    ELSE polar_place(sentinel, polar_sort(sentinel, SubSeq(v, 1, Len(v) - 1)), v[Len(v)])

\* Iterator::position: the 0-based index of the first element meeting the
\* test, Len(v) standing for None
first_not_sentinel(clone, sentinel) ==
    IF \E k \in 1..Len(clone) : clone[k] # sentinel
    THEN (CHOOSE k \in 1..Len(clone) :
            clone[k] # sentinel /\ \A m \in 1..(k - 1) : clone[m] = sentinel) - 1
    ELSE Len(clone)

first_not_collinear(clone, sentinel, f) ==
    IF \E k \in 1..Len(clone) : vertex_angle(sentinel, f, clone[k]) # "Collinear"
    THEN (CHOOSE k \in 1..Len(clone) :
            /\ vertex_angle(sentinel, f, clone[k]) # "Collinear"
            /\ \A m \in 1..(k - 1) : vertex_angle(sentinel, f, clone[m]) = "Collinear") - 1
    ELSE Len(clone)

\* lines 195-198: pop while (next-to-top, top, p) is not a counter-clockwise
\* turn; the stack below top is hull
RECURSIVE scan_pop(_, _, _)
scan_pop(hull_, top, p) ==
    IF Len(hull_) = 0 THEN [panic |-> TRUE, hull |-> hull_, top |-> top]
    ELSE IF vertex_angle(hull_[Len(hull_)], top, p) # "CounterClockwise"
    THEN scan_pop(SubSeq(hull_, 1, Len(hull_) - 1), hull_[Len(hull_)], p)
    ELSE [panic |-> FALSE, hull |-> hull_, top |-> top]

RECURSIVE scan(_, _, _)
\* lines 199-200 after the pops r
scan_push(clone, i, r) ==
    IF r.panic THEN [tag |-> "Panic", hull |-> r.hull]
    ELSE scan(clone, i + 1, Append(Append(r.hull, r.top), VecGet(clone, i)))

\* lines 194-201
scan(clone, i, hull_) ==
    IF ~(i < Len(clone)) THEN [tag |-> "Ok", hull |-> hull_]
    ELSE IF Len(hull_) = 0 THEN [tag |-> "Panic", hull |-> hull_]
    ELSE scan_push(clone, i,
                   scan_pop(SubSeq(hull_, 1, Len(hull_) - 1), hull_[Len(hull_)],
                            VecGet(clone, i)))

\* lines 182-202
graham_second(clone, sentinel, second) ==
    IF second = Len(clone) THEN [tag |-> "Err", hull |-> <<>>]
    ELSE IF second = 0 THEN [tag |-> "Panic", hull |-> <<sentinel>>]
    ELSE scan(clone, second, <<sentinel, VecGet(clone, second - 1)>>)

\* lines 175-188
graham_first(clone, sentinel, first) ==
    IF first = Len(clone) THEN [tag |-> "Err", hull |-> <<>>]
    ELSE graham_second(clone, sentinel,
                       first_not_collinear(clone, sentinel, VecGet(clone, first)))

\* lines 154-172 on the clone with the lowest vertex swapped to the front
graham_sorted(clone, sentinel) ==
    graham_first(polar_sort(sentinel, clone), sentinel,
                 first_not_sentinel(polar_sort(sentinel, clone), sentinel))

graham_swapped(clone) == graham_sorted(clone, clone[1])

\* lines 147-169: clone after the swap and the sort
sorted_clone(vertices) ==
    polar_sort(VecGet(vertices, lowest_y_index(vertices)),
               VecSwap(vertices, 0, lowest_y_index(vertices)))

graham_scan(vertices) ==
    IF Len(vertices) < 3 THEN [tag |-> "Err", hull |-> <<>>]
    ELSE graham_swapped(VecSwap(vertices, 0, lowest_y_index(vertices)))

\* the Vec2d of f64 with the coordinates of the point p
Vec2d_f64(p) == [x |-> Dy_f64(Vec2d_x(p)), y |-> Dy_f64(Vec2d_y(p))]

\* Vec2d::zero
Vec2d_zero == [x |-> Zero, y |-> Zero]

\* Add, Neg and Sub (self + -rhs) for Vec2d
Vec2d_add(a, b) == [x |-> F64Add(a.x, b.x), y |-> F64Add(a.y, b.y)]
Vec2d_neg(v) == [x |-> F64Neg(v.x), y |-> F64Neg(v.y)]
Vec2d_sub(a, b) == Vec2d_add(a, Vec2d_neg(b))

\* Vec2d::dot, which Mul for Vec2d calls
Dot(a, b) == F64Add(F64Mul(a.x, b.x), F64Mul(a.y, b.y))

\* Vec2d::len: sqrt(x * x + y + y)
Vec2d_len(v) == F64Sqrt(F64Add(F64Add(F64Mul(v.x, v.x), v.y), v.y))

\* Vec2d::normalize
Vec2d_normalize(v) ==
    LET inv_len == F64Div(One, Vec2d_len(v))
    IN  [x |-> F64Mul(v.x, inv_len), y |-> F64Mul(v.y, inv_len)]

\* line 34: hull[i2] - hull[i], a difference of coordinates of one slice
edge_of(a, b) ==
    [x |-> Dy_f64(Dy_sub(Vec2d_x(b), Vec2d_x(a))), y |-> Dy_f64(Dy_sub(Vec2d_y(b), Vec2d_y(a)))]

\* line 36 on the edge
edge_rotated(edge) ==
    Vec2d_normalize([x |-> F64Mul(One, edge.y), y |-> F64Mul(MinusOne, edge.x)])

\* lines 34-36: the normal pushed for the edge hull[i] -> hull[i2]
edge_normal(a, b) == edge_rotated(edge_of(a, b))

\* Convex::new
Convex_of(r) ==
    IF r.tag # "Ok" THEN [tag |-> r.tag, vertices |-> <<>>, normals |-> <<>>]
    ELSE [tag |-> "Ok", vertices |-> r.hull,
          normals |-> [i \in 1..Len(r.hull) |->
                         edge_normal(r.hull[i],
                                     r.hull[IF i + 1 <= Len(r.hull) THEN i + 1 ELSE 1])]]

Convex_new(vertices) == Convex_of(graham_scan(vertices))

(***************************************************************************)
(* src/collision/aabb.rs: Aabb.  A point is a Vec2d of two f64, and so are *)
(* the center and the half extents of a box.                               *)
(***************************************************************************)
\* lines 193-204 for the coordinate v and the bound cur found so far
lower(v, cur) == IF F64Gt(cur, v) THEN v ELSE cur
upper(v, cur) == IF F64Gt(v, cur) THEN v ELSE cur

\* lines 187-205: the loop over the points from index k on
RECURSIVE bounds_scan(_, _, _)
bounds_scan(points_, k, b) ==
    IF k > Len(points_) THEN b
    ELSE bounds_scan(points_, k + 1,
            [xmin |-> lower(points_[k].x, b.xmin), xmax |-> upper(points_[k].x, b.xmax),
             ymin |-> lower(points_[k].y, b.ymin), ymax |-> upper(points_[k].y, b.ymax)])

\* lines 207-209
bounds_halves(b) ==
    [xmin |-> b.xmin, xmax |-> b.xmax, half_x |-> F64Div(F64Sub(b.xmax, b.xmin), Two),
     ymin |-> b.ymin, ymax |-> b.ymax, half_y |-> F64Div(F64Sub(b.ymax, b.ymin), Two)]

\* bounds_info
bounds_info(points_) ==
    bounds_halves(bounds_scan(points_, 1,
                              [xmin |-> F64_MAX, xmax |-> F64_MIN,
                               ymin |-> F64_MAX, ymax |-> F64_MIN]))

\* lines 107-118 on the bounds b
Aabb_of(b) ==
    [center |-> [x |-> b.half_x, y |-> b.half_y],
     half_l |-> F64Sub(b.half_x, b.xmin),
     half_w |-> F64Sub(b.half_y, b.ymin),
     projected |-> [x |-> Projection_new(b.xmin, b.xmax),
                    y |-> Projection_new(b.ymin, b.ymax)]]

\* Aabb::new
Aabb_new(points_) ==
    IF Len(points_) < 3 THEN [tag |-> "Err", aabb |-> <<>>]
    ELSE [tag |-> "Ok", aabb |-> <<Aabb_of(bounds_info(points_))>>]

\* lines 125-128 on the moved center c
Aabb_moved(self, c) ==
    [self EXCEPT !.center = c,
                 !.projected = [x |-> Projection_new(F64Sub(c.x, self.half_w),
                                                     F64Add(c.x, self.half_w)),
                                y |-> Projection_new(F64Sub(c.y, self.half_l),
                                                     F64Add(c.y, self.half_l))]]

\* Aabb::translate
Aabb_translate(self, movement) == Aabb_moved(self, Vec2d_add(self.center, movement))

\* lines 139-148 on the bounds b
Aabb_rebuilt(self, b) ==
    [self EXCEPT !.center = [x |-> b.half_x, y |-> b.half_y],
                 !.half_l = F64Sub(b.half_x, b.xmin),
                 !.half_w = F64Sub(b.half_y, b.ymin),
                 !.projected = [x |-> Projection_new(b.xmin, b.xmax),
                                y |-> Projection_new(b.ymin, b.ymax)]]

\* the mutant rebuilds the projections and keeps the old center and halves
Aabb_reconstruct_projected_only(self, points_) ==
    IF Len(points_) < 3 THEN [tag |-> "Err", aabb |-> self]
    ELSE [tag |-> "Ok",
          aabb |-> [self EXCEPT !.projected = Aabb_of(bounds_info(points_)).projected]]

\* Aabb::reconstruct: the result and the box it leaves
Aabb_reconstruct(self, points_) ==
    IF Len(points_) < 3 THEN [tag |-> "Err", aabb |-> self]
    ELSE [tag |-> "Ok", aabb |-> Aabb_rebuilt(self, bounds_info(points_))]

(***************************************************************************)
(* src/common/rotation.rs and src/common/transform.rs.  A Rotation is      *)
(* [sin, cos], a Transform [position, rotation], all of them f64.          *)
(* f64::sin, f64::cos and f64::atan2 are the functions of the platform's   *)
(* libm; the model holds their values at the angles its rotations reach:   *)
(* 0 and up to three quarter turns added to it.                            *)
(***************************************************************************)
\* the f64 with the given sign and biased exponent whose fraction is written
\* in the 13 hexadecimal digits of hex
F64Hex(sign, exp, hex) ==
    [sign |-> sign, exp |-> exp,
     frac |-> [k \in 1..52 |-> (hex[(k + 3) \div 4] \div 2^(3 - ((k - 1) % 4))) % 2]]

\* std::f64::consts::FRAC_PI_2 = 0x3FF921FB54442D18 and PI = 0x400921FB54442D18
FRAC_PI_2 == F64Hex(0, 1023, <<9, 2, 1, 15, 11, 5, 4, 4, 4, 2, 13, 1, 8>>)
PI == F64Hex(0, 1024, <<9, 2, 1, 15, 11, 5, 4, 4, 4, 2, 13, 1, 8>>)

\* angle, angle.sin() and angle.cos():
\*   0                                    0.0                      1.0
\*   FRAC_PI_2                            1.0                      6.123233995736766e-17
\*   PI                                   1.2246467991473532e-16  -1.0
\*   PI + FRAC_PI_2 = 4.71238898038469   -1.0                     -1.8369701987210297e-16
\* and sin.atan2(cos) gives the angle back on the first three lines
TrigTable ==
    << [angle |-> Zero, sin |-> Zero, cos |-> One],
       [angle |-> FRAC_PI_2, sin |-> One,
        cos |-> F64Hex(0, 969, <<1, 10, 6, 2, 6, 3, 3, 1, 4, 5, 12, 0, 7>>)],
       [angle |-> PI, sin |-> F64Hex(0, 970, <<1, 10, 6, 2, 6, 3, 3, 1, 4, 5, 12, 0, 7>>),
        cos |-> MinusOne],
       [angle |-> F64Hex(0, 1025, <<2, 13, 9, 7, 12, 7, 15, 3, 3, 2, 1, 13, 2>>),
        sin |-> MinusOne,
        cos |-> F64Hex(1, 970, <<10, 7, 9, 3, 9, 4, 12, 9, 14, 8, 10, 0, 10>>)] >>

\* f64::sin, f64::cos and f64::atan2 on the values of the table
F64_sin(angle) == TrigTable[CHOOSE k \in 1..Len(TrigTable) : TrigTable[k].angle = angle].sin
F64_cos(angle) == TrigTable[CHOOSE k \in 1..Len(TrigTable) : TrigTable[k].angle = angle].cos
F64_atan2(y, x) ==
    TrigTable[CHOOSE k \in 1..(Len(TrigTable) - 1) :
                TrigTable[k].sin = y /\ TrigTable[k].cos = x].angle

\* Rotation::new, Rotation::identity, Rotation::angle and Rotation::update
Rotation_new(angle) == [sin |-> F64_sin(angle), cos |-> F64_cos(angle)]
Rotation_identity == [sin |-> Zero, cos |-> One]
Rotation_angle(self) == F64_atan2(self.sin, self.cos)
Rotation_update(self, angle) == [self EXCEPT !.sin = F64_sin(angle), !.cos = F64_cos(angle)]

\* Transform::new, Transform::identity
Transform_new(position, rotation) == [position |-> position, rotation |-> rotation]
Transform_identity == [position |-> Vec2d_zero, rotation |-> Rotation_identity]

\* Transform::update, Transform::translate and Transform::rotate: the
\* transform they leave
Transform_update(self, position, rotation) ==
    [self EXCEPT !.position = position, !.rotation = rotation]
Transform_translate(self, translation) ==
    [self EXCEPT !.position = Vec2d_add(self.position, translation)]
Transform_rotate(self, angle) ==
    [self EXCEPT !.rotation =
        Rotation_update(self.rotation, F64Add(Rotation_angle(self.rotation), angle))]

\* Vec2d::rotate: the rotation alone
Vec2d_rotate(v, r) ==
    [x |-> F64Sub(F64Mul(r.cos, v.x), F64Mul(r.sin, v.y)),
     y |-> F64Add(F64Mul(r.sin, v.x), F64Mul(r.cos, v.y))]

\* Vec2d::transform: the rotation of the transform, then its translation
Vec2d_transform(v, t) == Vec2d_add(Vec2d_rotate(v, t.rotation), t.position)

\* Result::unwrap on the result of Aabb::new
Aabb_unwrap(r) ==
    IF r.tag = "Ok" THEN [tag |-> "Ok", aabb |-> r.aabb] ELSE [tag |-> "Panic", aabb |-> <<>>]

\* HasAabb for Convex
Convex_aabb(self, transform) ==
    Aabb_unwrap(Aabb_new([k \in 1..Len(self.vertices) |->
                            Vec2d_transform(Vec2d_f64(self.vertices[k]), transform)]))

(***************************************************************************)
(* src/collision/shapes/convex.rs: the separating-axis test.  Every        *)
(* placed vertex, projection and separation is the f64 the code computes,  *)
(* rounded at each product and each sum.                                   *)
(***************************************************************************)
RECURSIVE support_scan(_, _, _, _, _, _)
\* lines 107-111 for the placed vertex_b
support_step(vb, bt, neg_normal, j, best, vertex_b, proj) ==
    IF F64Gt(proj, best.proj)
    THEN support_scan(vb, bt, neg_normal, j + 1, proj, vertex_b)
    ELSE support_scan(vb, bt, neg_normal, j + 1, best.proj, best.support)

support_placed(vb, bt, neg_normal, j, best, vertex_b) ==
    support_step(vb, bt, neg_normal, j, best, vertex_b, Dot(neg_normal, vertex_b))

\* lines 103-112: the support point of b against the reversed normal
support_scan(vb, bt, neg_normal, j, best_proj, support) ==
    IF ~(j < Len(vb)) THEN support
    ELSE support_placed(vb, bt, neg_normal, j, [proj |-> best_proj, support |-> support],
                        Vec2d_transform(Vec2d_f64(VecGet(vb, j)), bt))

RECURSIVE separation_scan(_, _, _, _, _, _)
\* lines 117-121 with the separation sep of edge i
separation_step(a, b, at, bt, i, best, sep) ==
    IF F64Gt(sep, best.max_sep)
    THEN separation_scan(a, b, at, bt, i + 1, [best_i |-> i, max_sep |-> sep])
    ELSE separation_scan(a, b, at, bt, i + 1, best)

\* lines 96-117 with the placed vertex and the rotated normal of edge i
separation_edge(a, b, at, bt, i, best, vertex_a, normal) ==
    separation_step(a, b, at, bt, i, best,
        Dot(normal,
            Vec2d_sub(support_scan(b.vertices, bt, Vec2d_neg(normal), 0, F64_MIN,
                                   Vec2d_f64(VecGet(b.vertices, 0))),
                      vertex_a)))

\* lines 95-122
separation_scan(a, b, at, bt, i, best) ==
    IF ~(i < Len(a.vertices)) THEN best
    ELSE separation_edge(a, b, at, bt, i, best,
                         Vec2d_transform(Vec2d_f64(VecGet(a.vertices, i)), at),
                         Vec2d_rotate(VecGet(a.normals, i), at.rotation))

find_max_separation(a, b, at, bt) ==
    separation_scan(a, b, at, bt, 0, [best_i |-> 0, max_sep |-> F64_MIN])

\* util::TOLERANCE, a small positive tolerance: 1e-10 as util::THRESHOLD
TOLERANCE == THRESHOLD

\* sep > util::TOLERANCE
ExceedsTolerance(sep) == F64Gt(sep, TOLERANCE)

\* lines 75-79 after the first separation did not exceed the tolerance
collides_second(sep_b) == IF ExceedsTolerance(sep_b.max_sep) THEN FALSE ELSE TRUE

\* CollidesWith<Convex> for Convex
collides_with(self, other, this_t, other_t) ==
    IF ExceedsTolerance(find_max_separation(self, other, this_t, other_t).max_sep)
    THEN FALSE
    ELSE collides_second(find_max_separation(other, self, this_t, other_t))

(***************************************************************************)
(* Specifications                                                          *)
(***************************************************************************)
Range(s) == {s[k] : k \in 1..Len(s)}

RECURSIVE SeqsUpTo(_, _)
SeqsUpTo(S, n) ==
    IF n = 0 THEN {<<>>}
    ELSE LET shorter == SeqsUpTo(S, n - 1)
         IN  shorter \cup {Append(q, e) : q \in {r \in shorter : Len(r) = n - 1}, e \in S}

\* the hashers of the model: for every set of pairs of distinct objects, one
\* that makes the two orders of exactly these pairs meet (all of them under
\* a symmetric Hash of T)
UnorderedPairs == {m \in SUBSET Objects : Cardinality(m) = 2}
HashMeetings == SUBSET UnorderedPairs

IdleSap ==
    /\ xs = <<>> /\ ys = <<>> /\ pairs = {} /\ status = "ok"
    /\ projecters = <<>> /\ inserted = {} /\ calls = 0 /\ hash_sym = {}
IdleCodec == fa = None /\ fb = None /\ enc = <<>> /\ dec = <<>>
IdleHull  == points = <<>> /\ hull = <<>> /\ hbox = <<>>
IdleBox   == bpoints = <<>> /\ box = <<>> /\ shift = <<>> /\ last = <<>>
IdleProj  == pin = <<>> /\ pobj = <<>> /\ pacc = <<>> /\ pint = <<>>
IdleSat   == shapes = <<>> /\ places = <<>> /\ moves = 0 /\ collides = <<>>

\* ---- the broadphase: SweepAndPrune::new, then batch_insert calls ----
Init ==
    /\ unit = "sap"
    /\ xs = SweepAndPrune_new.xs
    /\ ys = SweepAndPrune_new.ys
    /\ pairs = SweepAndPrune_new.pairs
    /\ status = SweepAndPrune_new.status
    /\ projecters = <<>>
    /\ inserted = {}
    /\ calls = 0
    /\ hash_sym \in HashMeetings
    /\ IdleCodec /\ IdleHull /\ IdleBox /\ IdleProj /\ IdleSat

BatchInsert ==
    /\ unit = "sap"
    /\ status = "ok"
    /\ calls < MaxCalls
    /\ \E batch \in SeqsUpTo(Objects, MaxBatch) :
         LET r == batch_insert([xs |-> xs, ys |-> ys, pairs |-> pairs,
                                status |-> status], batch, hash_sym)
         IN  /\ xs' = r.xs
             /\ ys' = r.ys
             /\ pairs' = r.pairs
             /\ status' = r.status
             /\ projecters' = batch
             /\ inserted' = inserted \cup Range(batch)
    /\ calls' = calls + 1
    /\ UNCHANGED <<hash_sym, unit, codecVars, hullVars, boxVars, projVars, satVars>>

Next == BatchInsert

Spec == Init /\ [][Next]_vars

\* ---- the pair set under the insert and remove statements of the merge ----
InitPairs ==
    /\ unit = "pairs"
    /\ xs = <<>> /\ ys = <<>> /\ pairs = {} /\ status = "ok"
    /\ projecters = <<>> /\ inserted = {} /\ calls = 0
    /\ hash_sym \in HashMeetings
    /\ IdleCodec /\ IdleHull /\ IdleBox /\ IdleProj /\ IdleSat

\* line 135: self.pairs.insert(IdPair(bb1, bb2))
pairs_insert ==
    /\ unit = "pairs"
    /\ Cardinality(pairs) < MaxPairs
    /\ \E bb1 \in Objects, bb2 \in Objects :
         pairs' = HashSet_insert(pairs, <<bb1, bb2>>, hash_sym)
    /\ UNCHANGED <<xs, ys, status, projecters, inserted, calls, hash_sym, unit,
                   codecVars, hullVars, boxVars, projVars, satVars>>

\* line 139: self.pairs.remove(&IdPair(bb1, bb2))
pairs_remove ==
    /\ unit = "pairs"
    /\ \E bb1 \in Objects, bb2 \in Objects :
         pairs' = HashSet_remove(pairs, <<bb1, bb2>>, hash_sym)
    /\ UNCHANGED <<xs, ys, status, projecters, inserted, calls, hash_sym, unit,
                   codecVars, hullVars, boxVars, projVars, satVars>>

NextPairs == pairs_insert \/ pairs_remove

SpecPairs == InitPairs /\ [][NextPairs]_vars

\* ---- the codec applied to two inputs ----
\* f64::MIN, -2^32, -2^31, -3, -2, -1, -0.5, 0, 0.25, 0.5, 1, 1.5, 2, 3,
\* 2^31, 2^32, f64::MAX
FloatInputs ==
    { F64_MIN, F64(1, 1055, <<>>), F64(1, 1054, <<>>), F64(1, 1024, <<1>>),
      F64(1, 1024, <<>>), MinusOne, F64(1, 1022, <<>>), Zero,
      F64(0, 1021, <<>>), Half, One, OneHalf, Two, Three,
      F64(0, 1054, <<>>), F64(0, 1055, <<>>), F64_MAX }

InitCodec ==
    /\ unit = "codec"
    /\ fa \in FloatInputs
    /\ fb \in FloatInputs
    /\ enc = <<>>
    /\ dec = <<>>
    /\ IdleSap /\ IdleHull /\ IdleBox /\ IdleProj /\ IdleSat

Encode ==
    /\ unit = "codec"
    /\ enc = <<>>
    /\ enc' = <<encode_f64(fa), encode_f64(fb)>>
    /\ UNCHANGED <<fa, fb, dec, unit, sapVars, hullVars, boxVars, projVars, satVars>>

Decode ==
    /\ unit = "codec"
    /\ enc # <<>>
    /\ dec = <<>>
    /\ dec' = <<decode_f64(enc[1])>>
    /\ UNCHANGED <<fa, fb, enc, unit, sapVars, hullVars, boxVars, projVars, satVars>>

NextCodec == Encode \/ Decode

SpecCodec == InitCodec /\ [][NextCodec]_vars

\* ---- hull construction from a vertex slice ----
Pt(x, y) == [x |-> x, y |-> y]

\* a Vec2d with coordinates in quarters
Quarters(x, y) == Vec2d_new(x, y, GridExp)

\* the 3 x 3 grid of points with coordinates 0, 0.5 and 1
Grid == {Quarters(x, y) : x \in {0, 2, 4}, y \in {0, 2, 4}}

\* the vertex slices of test_convex_from_vertices (lines 247-337)
TestLine      == <<Quarters(0, 0), Quarters(4, 4), Quarters(8, 8), Quarters(12, 12)>>
TestBasic     == <<Quarters(0, 0), Quarters(4, 4), Quarters(4, 0)>>
TestClockwise == <<Quarters(0, 0), Quarters(4, 4), Quarters(4, 0), Quarters(8, 4)>>
TestInternal  == <<Quarters(0, 0), Quarters(4, 4), Quarters(4, 0), Quarters(2, 2)>>
TestCollinear ==
    <<Quarters(0, 0), Quarters(4, 4), Quarters(4, 0), Quarters(2, 2), Quarters(4, 2),
      Quarters(4, 1)>>

\* points a few units of 2^-18 apart: a cross product of up to 6 units
\* (6 * 2^-36 < 1e-10 < 7 * 2^-36) is within util::THRESHOLD of zero, and a
\* difference of coordinates never is
FineExp == -18
Fine(x, y) == Vec2d_new(x, y, FineExp)
FineGrid ==
    {Fine(-1, 0), Fine(-1, 1), Fine(-1, 7), Fine(0, 0), Fine(0, 1), Fine(0, 7), Fine(2, 0)}

\* a slice whose hull keeps the vertex (0, 7 * 2^-18) twice
FineTwice == <<Fine(-1, 1), Fine(0, 7), Fine(0, 0), Fine(2, 0), Fine(0, 7)>>

\* points one unit of 2^-34 apart: a difference of coordinates of one unit
\* (2^-34 < 1e-10 < 2^-33) is within util::THRESHOLD of zero
MinuteExp == -34
MinuteGrid == {Vec2d_new(x, y, MinuteExp) : x \in {0, 1, 2}, y \in {0, 1, 2}}

\* points near 1e307 and 1e308: every product of two differences of
\* coordinates that are not zero is infinite
HugeExp == 1021
HugeGrid == {Vec2d_new(x, y, HugeExp) : x \in {-4, 0, 1, 4}, y \in {0, 1, 4}}

\* the corners of the unit square, its center and the point (2, 0.5)
PolyGrid ==
    {Quarters(0, 0), Quarters(4, 0), Quarters(4, 4), Quarters(0, 4), Quarters(2, 2),
     Quarters(8, 2)}

VertexInputs ==
    SeqsUpTo(Grid, MaxTinyPts) \cup SeqsUpTo(PolyGrid, MaxPts)
        \cup {TestLine, TestBasic, TestClockwise, TestInternal, TestCollinear}
        \cup SeqsUpTo(FineGrid, MaxPts) \cup {FineTwice}
        \cup SeqsUpTo(MinuteGrid, MaxTinyPts) \cup SeqsUpTo(HugeGrid, MaxTinyPts)

InitHull ==
    /\ unit = "hull"
    /\ points \in VertexInputs
    /\ hull = <<>>
    /\ hbox = <<>>
    /\ IdleSap /\ IdleCodec /\ IdleBox /\ IdleProj /\ IdleSat

ConvexNew ==
    /\ unit \in {"hull", "poly"}
    /\ hull = <<>>
    /\ hull' = <<Convex_new(points)>>
    /\ UNCHANGED <<points, hbox, unit, sapVars, codecVars, boxVars, projVars, satVars>>

NextHull == ConvexNew

SpecHull == InitHull /\ [][NextHull]_vars

\* ---- a polygon built from a vertex slice, then its bounding box ----
\* the points of FineTwice
FinePolyGrid == {Fine(-1, 1), Fine(0, 7), Fine(0, 0), Fine(2, 0)}

PolyInputs ==
    SeqsUpTo(PolyGrid, MaxPolyPts) \cup SeqsUpTo(FinePolyGrid, MaxPolyPts) \cup {FineTwice}

InitPoly ==
    /\ unit = "poly"
    /\ points \in PolyInputs
    /\ hull = <<>>
    /\ hbox = <<>>
    /\ IdleSap /\ IdleCodec /\ IdleBox /\ IdleProj /\ IdleSat

\* the identity, the translation by (3, 0) and the quarter turn
PolyPlacements ==
    {Transform_identity,
     Transform_new(Vec2d_f64(Quarters(3 * GridDen, 0)), Rotation_identity),
     Transform_new(Vec2d_zero, Rotation_new(FRAC_PI_2))}

ConvexAabb ==
    /\ unit = "poly"
    /\ hull # <<>>
    /\ hull[1].tag = "Ok"
    /\ hbox = <<>>
    /\ \E transform \in PolyPlacements : hbox' = <<Convex_aabb(hull[1], transform)>>
    /\ UNCHANGED <<points, hull, unit, sapVars, codecVars, boxVars, projVars, satVars>>

NextPoly == ConvexNew \/ ConvexAabb

SpecPoly == InitPoly /\ [][NextPoly]_vars

\* ---- an Aabb: new, then translate and reconstruct calls ----
\* the coordinates of these points are counted in eighths (HalfDen = 2 *
\* GridDen), so that half a difference of quarters is counted too
HalfDen == 2 * GridDen
HalfExp == GridExp - 1

\* the f64 value n / HalfDen, and the Vec2d of f64 counted by p
ToF64(n) == Dy_f64(Dy(n, HalfExp))
Eighths(p) == [x |-> ToF64(p.x), y |-> ToF64(p.y)]
EighthsOf(ps) == [k \in 1..Len(ps) |-> Eighths(ps[k])]

\* the points (-1, 0), (2, 0) and (2, 1)
BoxGrid == {Pt(-HalfDen, 0), Pt(2 * HalfDen, 0), Pt(2 * HalfDen, HalfDen)}

BoxInputs == SeqsUpTo(BoxGrid, MaxBoxPts)

\* the movements (0,0), (1,0) and (0,-1)
Moves == {Pt(0, 0), Pt(HalfDen, 0), Pt(0, -HalfDen)}

\* the slices handed to reconstruct: too short ones and three triangles
RebuildInputs ==
    { <<>>, <<Pt(0, 0)>>, <<Pt(0, 0), Pt(2 * HalfDen, HalfDen)>>,
      <<Pt(0, 0), Pt(2 * HalfDen, 0), Pt(0, HalfDen)>>,
      <<Pt(-HalfDen, 0), Pt(0, HalfDen), Pt(2 * HalfDen, HalfDen)>>,
      <<Pt(2 * HalfDen, HalfDen), Pt(0, HalfDen), Pt(0, 0), Pt(-HalfDen, HalfDen)>> }

InitAabb ==
    /\ unit = "aabb"
    /\ bpoints \in BoxInputs
    /\ box = <<>>
    /\ shift = Pt(0, 0)
    /\ last = <<>>
    /\ IdleSap /\ IdleCodec /\ IdleHull /\ IdleProj /\ IdleSat

\* the state left by Aabb::new(arg) with result r
AabbBuilt(arg, r) ==
    /\ box' = r.aabb
    /\ last' = <<[op |-> "new", tag |-> r.tag, arg |-> arg]>>

AabbNew ==
    /\ unit = "aabb"
    /\ last = <<>>
    /\ AabbBuilt(bpoints, Aabb_new(EighthsOf(bpoints)))
    /\ UNCHANGED <<bpoints, shift, unit, sapVars, codecVars, hullVars, projVars, satVars>>

AabbTranslate ==
    /\ unit = "aabb"
    /\ box # <<>>
    /\ \E movement \in Moves :
         /\ Abs(shift.x + movement.x) + Abs(shift.y + movement.y) <= MaxShift
         /\ box' = <<Aabb_translate(box[1], Eighths(movement))>>
         /\ shift' = Pt(shift.x + movement.x, shift.y + movement.y)
         /\ last' = <<[op |-> "translate", tag |-> "Ok", arg |-> <<movement>>]>>
    /\ UNCHANGED <<bpoints, unit, sapVars, codecVars, hullVars, projVars, satVars>>

\* the state left by reconstruct(arg) with result r
AabbRebuilt(arg, r) ==
    /\ box' = <<r.aabb>>
    /\ last' = <<[op |-> "reconstruct", tag |-> r.tag, arg |-> arg]>>
    /\ bpoints' = IF r.tag = "Ok" THEN arg ELSE bpoints
    /\ shift' = IF r.tag = "Ok" THEN Pt(0, 0) ELSE shift

AabbReconstruct ==
    /\ unit = "aabb"
    /\ box # <<>>
    /\ \E arg \in RebuildInputs : AabbRebuilt(arg, Aabb_reconstruct(box[1], EighthsOf(arg)))
    /\ UNCHANGED <<unit, sapVars, codecVars, hullVars, projVars, satVars>>

NextAabb == AabbNew \/ AabbTranslate \/ AabbReconstruct

SpecAabb == InitAabb /\ [][NextAabb]_vars

\* ---- two projected boxes: construction, accessors, overlap tests ----
Interval(s, e) == [s |-> s, e |-> e]

\* [0,1], [1,2], [2,3], [0.5,1.5], [-1,0.5] and the malformed [3,1]
IntervalInputs ==
    { Interval(Zero, One), Interval(One, Two), Interval(Two, Three),
      Interval(Half, OneHalf), Interval(MinusOne, Half), Interval(Three, One) }

InitProj ==
    /\ unit = "proj"
    /\ pin \in [ax : IntervalInputs, ay : IntervalInputs,
                 bx : IntervalInputs, by : IntervalInputs]
    /\ pobj = <<>>
    /\ pacc = <<>>
    /\ pint = <<>>
    /\ IdleSap /\ IdleCodec /\ IdleHull /\ IdleBox /\ IdleSat

\* the ProjectedBox2d with the two extents
ProjectedBox2d_new(ix, iy) ==
    [x |-> Projection_new(ix.s, ix.e), y |-> Projection_new(iy.s, iy.e)]

ProjNew ==
    /\ unit = "proj"
    /\ pobj = <<>>
    /\ pobj' = <<[a |-> ProjectedBox2d_new(pin.ax, pin.ay),
                  b |-> ProjectedBox2d_new(pin.bx, pin.by)]>>
    /\ UNCHANGED <<pin, pacc, pint, unit, sapVars, codecVars, hullVars, boxVars, satVars>>

\* the four accessors called on the x projection of box a
ProjAccessors ==
    /\ unit = "proj"
    /\ pobj # <<>>
    /\ pacc = <<>>
    /\ pacc' = <<[dec_start |-> Projection_dec_start(pobj[1].a.x),
                  dec_end   |-> Projection_dec_end(pobj[1].a.x),
                  enc_start |-> Projection_enc_start(pobj[1].a.x),
                  enc_end   |-> Projection_enc_end(pobj[1].a.x)]>>
    /\ UNCHANGED <<pin, pobj, pint, unit, sapVars, codecVars, hullVars, boxVars, satVars>>

\* intersect called both ways round on the x projections, the y projections
\* and the boxes
ProjIntersect ==
    /\ unit = "proj"
    /\ pobj # <<>>
    /\ pint = <<>>
    /\ pint' = <<[xab |-> Projection_intersect(pobj[1].a.x, pobj[1].b.x),
                  xba |-> Projection_intersect(pobj[1].b.x, pobj[1].a.x),
                  yab |-> Projection_intersect(pobj[1].a.y, pobj[1].b.y),
                  yba |-> Projection_intersect(pobj[1].b.y, pobj[1].a.y),
                  ab  |-> ProjectedBox2d_intersect(pobj[1].a, pobj[1].b),
                  ba  |-> ProjectedBox2d_intersect(pobj[1].b, pobj[1].a)]>>
    /\ UNCHANGED <<pin, pobj, pacc, unit, sapVars, codecVars, hullVars, boxVars, satVars>>

NextProj == ProjNew \/ ProjAccessors \/ ProjIntersect

SpecProj == InitProj /\ [][NextProj]_vars

\* ---- two placed polygons and the collides_with calls on them ----
\* the squares (0,0),(2,0),(2,2),(0,2) and (1,1),(3,1),(3,3),(1,3) and the
\* triangles (0,0),(2,0),(0,2) and (0,0),(1,2),(-1,2)
SquareA   == <<Quarters(0, 0), Quarters(8, 0), Quarters(8, 8), Quarters(0, 8)>>
SquareB   == <<Quarters(4, 4), Quarters(12, 4), Quarters(12, 12), Quarters(4, 12)>>
TriangleA == <<Quarters(0, 0), Quarters(8, 0), Quarters(0, 8)>>
TriangleB == <<Quarters(0, 0), Quarters(4, 8), Quarters(-4, 8)>>

\* the slices the first and the second polygon are built from
FirstShapes  == {SquareA, TriangleA}
SecondShapes == {SquareA, SquareB, TriangleA, TriangleB}

\* the positions (0,0), (3,0), (0,3) and (0,-4)
Origin == Vec2d_zero
Right3 == Vec2d_f64(Quarters(3 * GridDen, 0))
Up3    == Vec2d_f64(Quarters(0, 3 * GridDen))
Down4  == Vec2d_f64(Quarters(0, -4 * GridDen))

\* the transforms the second polygon starts under: four translations and a
\* quarter turn
Placements ==
    {Transform_new(p, Rotation_identity) : p \in {Origin, Right3, Up3, Down4}}
        \cup {Transform_new(Origin, Rotation_new(FRAC_PI_2))}

\* the arguments of translate, of update and of rotate
Translations == {Right3}
Updates == {[position |-> Up3, rotation |-> Rotation_new(FRAC_PI_2)]}
Angles == {FRAC_PI_2}

InitSat ==
    /\ unit = "sat"
    /\ shapes = <<>>
    /\ places = <<>>
    /\ moves = 0
    /\ collides = [ab |-> <<>>, ba |-> <<>>]
    /\ IdleSap /\ IdleCodec /\ IdleHull /\ IdleBox /\ IdleProj

\* Convex::new(..).unwrap() on two of the inputs
ConvexPair ==
    /\ unit = "sat"
    /\ shapes = <<>>
    /\ \E va \in FirstShapes, vb \in SecondShapes :
         shapes' = [a |-> Convex_new(va), b |-> Convex_new(vb)]
    /\ UNCHANGED <<places, moves, collides, unit,
                   sapVars, codecVars, hullVars, boxVars, projVars>>

\* the two transforms the polygons are tested under: Transform::identity()
\* for the first, Transform::new(..) for the second
Place ==
    /\ unit = "sat"
    /\ shapes # <<>>
    /\ places = <<>>
    /\ \E bt \in Placements : places' = [at |-> Transform_identity, bt |-> bt]
    /\ UNCHANGED <<shapes, moves, collides, unit,
                   sapVars, codecVars, hullVars, boxVars, projVars>>

\* the state left by a call that changes the transform `which` into t
Moved(which, t) ==
    /\ places' = [places EXCEPT ![which] = t]
    /\ moves' = moves + 1
    /\ UNCHANGED <<shapes, collides, unit, sapVars, codecVars, hullVars, boxVars, projVars>>

\* at.translate(translation) or bt.translate(translation)
TransformTranslate ==
    /\ unit = "sat"
    /\ places # <<>>
    /\ moves < MaxMoves
    /\ \E which \in {"at", "bt"}, translation \in Translations :
         Moved(which, Transform_translate(places[which], translation))

\* at.update(position, rotation) or bt.update(position, rotation)
TransformUpdate ==
    /\ unit = "sat"
    /\ places # <<>>
    /\ moves < MaxMoves
    /\ \E which \in {"at", "bt"}, u \in Updates :
         Moved(which, Transform_update(places[which], u.position, u.rotation))

\* at.rotate(angle) or bt.rotate(angle)
TransformRotate ==
    /\ unit = "sat"
    /\ places # <<>>
    /\ moves < MaxMoves
    /\ \E which \in {"at", "bt"}, angle \in Angles :
         Moved(which, Transform_rotate(places[which], angle))

\* the record of self.collides_with(&other, &this_t, &other_t)
Call(self, other, this_t, other_t) ==
    [this_t |-> this_t, other_t |-> other_t,
     result |-> collides_with(self, other, this_t, other_t)]

\* a.collides_with(&b, &at, &bt)
CollidesAB ==
    /\ unit = "sat"
    /\ places # <<>>
    /\ collides.ab = <<>>
    /\ collides' = [collides EXCEPT
                      !.ab = <<Call(shapes.a, shapes.b, places.at, places.bt)>>]
    /\ UNCHANGED <<shapes, places, moves, unit,
                   sapVars, codecVars, hullVars, boxVars, projVars>>

\* b.collides_with(&a, &bt, &at)
CollidesBA ==
    /\ unit = "sat"
    /\ places # <<>>
    /\ collides.ba = <<>>
    /\ collides' = [collides EXCEPT
                      !.ba = <<Call(shapes.b, shapes.a, places.bt, places.at)>>]
    /\ UNCHANGED <<shapes, places, moves, unit,
                   sapVars, codecVars, hullVars, boxVars, projVars>>

NextSat ==
    \/ ConvexPair \/ Place
    \/ TransformTranslate \/ TransformUpdate \/ TransformRotate
    \/ CollidesAB \/ CollidesBA

SpecSat == InitSat /\ [][NextSat]_vars

(***************************************************************************)
(* Claims                                                                  *)
(***************************************************************************)
\* the unordered pairs held by the pair set
PairSetUnordered == {{p[1], p[2]} : p \in pairs}
\* brute force: the unordered pairs of distinct objects whose boxes intersect
BruteForcePairs(S) ==
    {{pr[1], pr[2]} : pr \in {q \in S \X S : q[1] # q[2] /\ Aabb_intersect(q[1], q[2])}}

\* C1: after any sequence of batch_insert calls the pair set is exactly the
\* set of pairs of distinct inserted objects whose projected boxes intersect.
C1_Soundness == unit = "sap" => PairSetUnordered = BruteForcePairs(inserted)

\* C2: batch_insert never fails: every call returns normally.
C2_NeverFails == unit = "sap" => status = "ok"

Sorted(v) == \A k \in 1..(Len(v) - 1) : I64Le(v[k].val, v[k + 1].val)

\* C3: after new() and after every batch_insert, xs and ys are sorted
\* ascending by encoded value.
C3_Sorted == unit = "sap" => Sorted(xs) /\ Sorted(ys)

\* the encoded endpoint values of the objects handed to the broadphase
EndpointValsX == UNION {{projections2d(o).x.start, projections2d(o).x.end} : o \in inserted}
EndpointValsY == UNION {{projections2d(o).y.start, projections2d(o).y.end} : o \in inserted}

SentinelsBound(v, vals) ==
    /\ Len(v) >= 2
    /\ v[1] = min_sentinel
    /\ v[Len(v)] = max_sentinel
    /\ \A k \in 2..(Len(v) - 1) : v[k].projecter # None
    /\ \A val \in vals : I64Le(min_sentinel.val, val) /\ I64Le(val, max_sentinel.val)

\* C4: the first element of xs and ys is the minimum sentinel, the last the
\* maximum sentinel, and every tracked endpoint value lies between the two
\* sentinel values.
C4_Sentinels ==
    unit = "sap" => SentinelsBound(xs, EndpointValsX) /\ SentinelsBound(ys, EndpointValsY)

\* C5: IdPair equality is symmetric and the pair set holds at most one entry
\* per unordered pair of objects.
C5_PairUnique ==
    /\ \A a \in Objects, b \in Objects : IdPair_eq(<<a, b>>, <<b, a>>)
    /\ \A p \in pairs, q \in pairs : IdPair_eq(p, q) => p = q

\* C6: batch_insert with an empty slice returns normally and leaves xs, ys
\* and the pair set as they were.
C6_EmptyNoOp ==
    [][(unit = "sap" /\ calls' = calls + 1 /\ projecters' = <<>>)
         => (xs' = xs /\ ys' = ys /\ pairs' = pairs /\ status' = "ok")]_vars
C6_Witness == unit = "sap" /\ calls > 0 /\ projecters = <<>> /\ status = "ok"

\* C7: for all finite a < b, encode_f64(a) < encode_f64(b) as i64.
C7_OrderPreserved ==
    (unit = "codec" /\ enc # <<>> /\ F64Lt(fa, fb)) => I64Lt(enc[1], enc[2])

\* C8: for every finite f, decode_f64(encode_f64(f)) == f.
C8_RoundTrip == (unit = "codec" /\ dec # <<>>) => F64Eq(dec[1], fa)

\* twice the signed area of the triangle (a, b, c): positive iff the turn
\* a -> b -> c is counter-clockwise, zero iff the three are collinear
Turn(a, b, c) == (b.x - a.x) * (c.y - a.y) - (b.y - a.y) * (c.x - a.x)

AllCollinear(v) == \A i \in 1..Len(v), j \in 1..Len(v), k \in 1..Len(v) : Turn(v[i], v[j], v[k]) = 0

\* C9: Convex::new returns an error exactly when it is given fewer than 3
\* points or points that are all coincident or collinear; on every other
\* finite input it returns a polygon, and the scan never empties the hull
\* stack.
C9_FailsExactlyOnBadInput ==
    (unit = "hull" /\ hull # <<>>) =>
        /\ hull[1].tag # "Panic"
        /\ (hull[1].tag = "Err") <=> (Len(points) < 3 \/ AllCollinear(points))
Cyc(v, i) == v[((i - 1) % Len(v)) + 1]

\* C10: every cyclically consecutive triple of vertices of a returned
\* polygon is a strict counter-clockwise turn; the triangle with the two
\* extra points on its edge (1,0)-(1,1) keeps 3 vertices.
C10_StrictlyCounterClockwise ==
    (unit = "hull" /\ hull # <<>> /\ hull[1].tag = "Ok") =>
        /\ Len(hull[1].vertices) >= 3
        /\ \A i \in 1..Len(hull[1].vertices) :
             Turn(Cyc(hull[1].vertices, i), Cyc(hull[1].vertices, i + 1),
                  Cyc(hull[1].vertices, i + 2)) > 0
        /\ points = TestCollinear => Len(hull[1].vertices) = 3
\* the point p lies on the closed segment from a to b
OnSegment(p, a, b) ==
    /\ Turn(a, b, p) = 0
    /\ (p.x - a.x) * (b.x - a.x) + (p.y - a.y) * (b.y - a.y) >= 0
    /\ (p.x - b.x) * (a.x - b.x) + (p.y - b.y) * (a.y - b.y) >= 0

\* p lies in the convex hull of the point set S: it is a point of S, lies on
\* a segment between two points of S, or in a triangle of three points of S
InConv(p, S) ==
    \/ p \in S
    \/ \E a \in S, b \in S : a # b /\ OnSegment(p, a, b)
    \/ \E a \in S, b \in S, c \in S :
          /\ Turn(a, b, c) > 0
          /\ Turn(a, b, p) >= 0 /\ Turn(b, c, p) >= 0 /\ Turn(c, a, p) >= 0

\* the points of S outside the convex hull of the other points of S
Extreme(S) == {p \in S : ~InConv(p, S \ {p})}

\* p against the counter-clockwise polygon v
InsideOrOn(p, v) == \A i \in 1..Len(v) : Turn(Cyc(v, i), Cyc(v, i + 1), p) >= 0
StrictlyInside(p, v) == \A i \in 1..Len(v) : Turn(Cyc(v, i), Cyc(v, i + 1), p) > 0
StrictlyOutside(p, v) == \E i \in 1..Len(v) : Turn(Cyc(v, i), Cyc(v, i + 1), p) < 0

\* the clause of C11 on adding the point p to an input whose hull is r
AddingPoint(r, p, vs) ==
    r.tag = "Ok" =>
        /\ StrictlyInside(p, r.hull) => Range(vs) = Range(r.hull)
        /\ StrictlyOutside(p, r.hull) => p \in Range(vs)

\* C11: every vertex of a returned hull is an input point, every input point
\* lies inside or on the hull, the hull vertices are exactly the input points
\* outside the convex hull of the others, adding a point strictly inside the
\* hull of the other points leaves the vertex set unchanged and adding one
\* strictly outside makes it a vertex.
C11_HullMinimal ==
    (unit = "hull" /\ hull # <<>> /\ hull[1].tag = "Ok") =>
        /\ Range(hull[1].vertices) \subseteq Range(points)
        /\ \A p \in Range(points) : InsideOrOn(p, hull[1].vertices)
        /\ Range(hull[1].vertices) = Extreme(Range(points))
        /\ AddingPoint(graham_scan(SubSeq(points, 1, Len(points) - 1)),
                       points[Len(points)], hull[1].vertices)
\* the smallest and the largest element of a non-empty set of integers
MinOf(S) == CHOOSE m \in S : \A n \in S : m <= n
MaxOf(S) == CHOOSE m \in S : \A n \in S : m >= n
CoordsX(v) == {v[k].x : k \in 1..Len(v)}
CoordsY(v) == {v[k].y : k \in 1..Len(v)}

\* util::encode_f64 on a coordinate, and Projection::new on two of them
Encoded(n) == encode_f64(ToF64(n))
Projection_of(start, end) == Projection_new(ToF64(start), ToF64(end))

\* the box stands as Aabb::new or a successful reconstruct built it
FreshlyBuilt ==
    /\ unit = "aabb" /\ box # <<>> /\ last # <<>>
    /\ last[1].tag = "Ok" /\ last[1].op \in {"new", "reconstruct"}

\* the encoded coordinate e lies in the projected interval pr
Within(pr, e) == I64Le(pr.start, e) /\ I64Le(e, pr.end)

\* C13: on a box built by Aabb::new or rebuilt by reconstruct, every input
\* point's encoded x lies in the projected x interval and its encoded y in the
\* projected y interval, and each interval has start <= end.
C13_Containment ==
    FreshlyBuilt =>
        /\ I64Le(box[1].projected.x.start, box[1].projected.x.end)
        /\ I64Le(box[1].projected.y.start, box[1].projected.y.end)
        /\ \A p \in Range(bpoints) :
             /\ Within(box[1].projected.x, Encoded(p.x))
             /\ Within(box[1].projected.y, Encoded(p.y))

\* C14: after translate calls moving a built box by shift in total, the
\* projected x interval is [xmin + shift.x, xmax + shift.x] and the projected
\* y interval is [ymin + shift.y, ymax + shift.y]; a zero movement leaves the
\* projected box as it was built.
C14_Translation ==
    (unit = "aabb" /\ box # <<>> /\ last # <<>> /\ last[1].op = "translate") =>
        /\ box[1].projected.x = Projection_of(MinOf(CoordsX(bpoints)) + shift.x,
                                              MaxOf(CoordsX(bpoints)) + shift.x)
        /\ box[1].projected.y = Projection_of(MinOf(CoordsY(bpoints)) + shift.y,
                                              MaxOf(CoordsY(bpoints)) + shift.y)

\* C15: Aabb::new fails exactly on fewer than 3 points; reconstruct fails
\* exactly on fewer than 3 points and then leaves the box unchanged; a
\* successful reconstruct(points) leaves the box Aabb::new(points) returns.
C15_ConstructionErrors ==
    [][(unit = "aabb" /\ last' # last) =>
         /\ last'[1].op = "new" =>
              ((last'[1].tag = "Err") <=> (Len(last'[1].arg) < 3))
         /\ last'[1].op = "reconstruct" =>
              /\ (last'[1].tag = "Err") <=> (Len(last'[1].arg) < 3)
              /\ last'[1].tag = "Err" => box' = box
              /\ last'[1].tag = "Ok" => box' = Aabb_new(EighthsOf(last'[1].arg)).aabb]_vars
C15_Witness ==
    /\ unit = "aabb" /\ box # <<>> /\ last # <<>>
    /\ last[1].op = "reconstruct" /\ last[1].tag = "Err" /\ Len(last[1].arg) = 2
    /\ shift # Pt(0, 0)

NoDuplicates(v) == \A i \in 1..Len(v), j \in 1..Len(v) : v[i] = v[j] => i = j

\* C12: a polygon returned by Convex::new has at least 3 vertices, no
\* duplicate vertex and as many normals as vertices, normals[i] being the
\* rotated edge from vertices[i] to vertices[i+1 mod n]; Convex::aabb never
\* fails on it.
C12_PolygonInvariant ==
    (unit = "poly" /\ hull # <<>> /\ hull[1].tag = "Ok") =>
        /\ Len(hull[1].vertices) >= 3
        /\ NoDuplicates(hull[1].vertices)
        /\ Len(hull[1].normals) = Len(hull[1].vertices)
        /\ \A i \in 1..Len(hull[1].normals) :
             hull[1].normals[i] =
                 edge_normal(Cyc(hull[1].vertices, i), Cyc(hull[1].vertices, i + 1))
        /\ hbox # <<>> => hbox[1].tag = "Ok"
WellFormed(pr) == I64Le(pr.start, pr.end)
\* the closed intervals a and b overlap
ClosedOverlap(a, b) == I64Le(a.start, b.end) /\ I64Le(b.start, a.end)

\* C16: on intervals with start <= end, Projection::intersect is the closed
\* interval overlap test (touching endpoints intersect); it is symmetric; two
\* projected boxes intersect iff their x intervals and their y intervals do.
C16_ClosedOverlap ==
    (unit = "proj" /\ pint # <<>>) =>
        /\ (WellFormed(pobj[1].a.x) /\ WellFormed(pobj[1].b.x)) =>
              (pint[1].xab <=> ClosedOverlap(pobj[1].a.x, pobj[1].b.x))
        /\ (WellFormed(pobj[1].a.y) /\ WellFormed(pobj[1].b.y)) =>
              (pint[1].yab <=> ClosedOverlap(pobj[1].a.y, pobj[1].b.y))
        /\ pint[1].xab = pint[1].xba
        /\ pint[1].yab = pint[1].yba
        /\ pint[1].ab = pint[1].ba
        /\ pint[1].ab <=> (pint[1].xab /\ pint[1].yab)
C16_Witness ==
    /\ unit = "proj" /\ pint # <<>>
    /\ pin.ax = Interval(Zero, One) /\ pin.bx = Interval(One, Two)
    /\ pin.ay = Interval(One, Two) /\ pin.by = Interval(Zero, One)
    /\ pint[1].xab /\ pint[1].ab

\* C19: on Projection::new(s, e), dec_start() returns s, dec_end() returns e,
\* enc_start() returns encode_f64(s) and enc_end() returns encode_f64(e).
C19_Accessors ==
    (unit = "proj" /\ pacc # <<>>) =>
        /\ F64Eq(pacc[1].dec_start, pin.ax.s)
        /\ F64Eq(pacc[1].dec_end, pin.ax.e)
        /\ pacc[1].enc_start = encode_f64(pin.ax.s)
        /\ pacc[1].enc_end = encode_f64(pin.ax.e)

\* the f64 values of the coordinates of up to 8 units counted in quarters
MaxReach == 8 * GridDen
QuarterTable == {[q |-> q, v |-> Dy_f64(Dy(q, GridExp))] : q \in -MaxReach..MaxReach}
IsQuarter(v) == \E r \in QuarterTable : r.v = v
QuartersOf(v) == (CHOOSE r \in QuarterTable : r.v = v).q

\* t is a translation by quarters, and the quarters it moves a point by
IsTranslation(t) ==
    t.rotation = Rotation_identity /\ IsQuarter(t.position.x) /\ IsQuarter(t.position.y)
ShiftOf(t) == Pt(QuartersOf(t.position.x), QuartersOf(t.position.y))

\* the vertices of polygon c moved by q quarters
ShiftedBy(c, q) == [k \in 1..Len(c.vertices) |-> Pt(c.vertices[k].x + q.x, c.vertices[k].y + q.y)]

\* the vertices of polygon c placed by the translation t
Placed(c, t) == ShiftedBy(c, ShiftOf(t))

\* some edge of the counter-clockwise polygon v has all of w strictly on its
\* outer side
EdgeSeparates(v, w) ==
    \E i \in 1..Len(v) : \A k \in 1..Len(w) : Turn(Cyc(v, i), Cyc(v, i + 1), w[k]) < 0
\* every edge of v has a vertex of w strictly on its inner side
EdgesReached(v, w) ==
    \A i \in 1..Len(v) : \E k \in 1..Len(w) : Turn(Cyc(v, i), Cyc(v, i + 1), w[k]) > 0

Separated(v, w) == EdgeSeparates(v, w) \/ EdgeSeparates(w, v)
Overlapping(v, w) == EdgesReached(v, w) /\ EdgesReached(w, v)

\* C17: A.collides_with(B, at, bt) equals B.collides_with(A, bt, at) for all
\* polygons and placements.
C17_Symmetric ==
    (/\ unit = "sat" /\ collides.ab # <<>> /\ collides.ba # <<>>
     /\ collides.ab[1].this_t = collides.ba[1].other_t
     /\ collides.ab[1].other_t = collides.ba[1].this_t) =>
        collides.ab[1].result = collides.ba[1].result

\* the call c of self.collides_with(&other, ..) under two translations
\* returned false if the placed polygons are separated, true if they overlap
Decided(c, self, other) ==
    (c # <<>> /\ IsTranslation(c[1].this_t) /\ IsTranslation(c[1].other_t)) =>
        /\ Separated(Placed(self, c[1].this_t), Placed(other, c[1].other_t)) => ~c[1].result
        /\ Overlapping(Placed(self, c[1].this_t), Placed(other, c[1].other_t)) => c[1].result

\* C18: collides_with returns false when some edge normal of either placed
\* polygon separates the two and true when they overlap (here for polygons
\* placed by translations); the two squares collide at the identity and do
\* not once the second is moved by (3, 0).
C18_Decision ==
    unit = "sat" =>
        /\ Decided(collides.ab, shapes.a, shapes.b)
        /\ Decided(collides.ba, shapes.b, shapes.a)

\* the positions of v that hold the start (or the end) endpoint of object o
EndpointsOf(v, o, start) ==
    {k \in 1..Len(v) : v[k].projecter = o /\ v[k].is_start = start}

\* v holds the two sentinels and, for every inserted object, one start and
\* one end endpoint with the encoded bounds of its interval on the axis
Conserved(v, axis) ==
    /\ Len(v) = 2 * Cardinality(inserted) + 2
    /\ \A o \in inserted :
         /\ Cardinality(EndpointsOf(v, o, TRUE)) = 1
         /\ Cardinality(EndpointsOf(v, o, FALSE)) = 1
         /\ \A k \in EndpointsOf(v, o, TRUE) : v[k].val = projections2d(o)[axis].start
         /\ \A k \in EndpointsOf(v, o, FALSE) : v[k].val = projections2d(o)[axis].end

\* C22: after any sequence of batch_insert calls xs and ys each hold 2n + 2
\* endpoints for the n inserted objects: the sentinels and one start and one
\* end endpoint per object carrying its encoded interval bounds.
C22_EndpointsConserved ==
    unit = "sap" => Conserved(xs, "x") /\ Conserved(ys, "y")

\* the squared distance of a and b, in squares of their unit
DistSq(a, b) == (a.x - b.x) * (a.x - b.x) + (a.y - b.y) * (a.y - b.y)

\* the pivot is lowest in y, and lowest in x among the points of that y
PivotLowest(pv, v) ==
    \A k \in 1..Len(v) : pv.y < v[k].y \/ (pv.y = v[k].y /\ pv.x <= v[k].x)

\* a and b lie on one ray from the pivot
SameRay(pv, a, b) == a # pv /\ b # pv /\ Turn(pv, a, b) = 0

\* the sorted points start with the pivot and turn counter-clockwise about it
AscendingAngle(pv, s) ==
    /\ s[1] = pv
    /\ \A i \in 1..Len(s), j \in 1..Len(s) :
         (i < j /\ s[i] # pv /\ s[j] # pv) => Turn(pv, s[i], s[j]) >= 0

FartherFirst(pv, s) ==
    \A i \in 1..Len(s), j \in 1..Len(s) :
        (i < j /\ SameRay(pv, s[i], s[j])) => DistSq(pv, s[i]) >= DistSq(pv, s[j])

\* the pivot is the first vertex of the hull r and no other vertex has an
\* input point farther out on its ray
FarthestKept(pv, v, r) ==
    r.tag = "Ok" =>
        /\ r.vertices[1] = pv
        /\ \A k \in 2..Len(r.vertices), m \in 1..Len(v) :
             SameRay(pv, r.vertices[k], v[m])
                 => DistSq(pv, v[m]) <= DistSq(pv, r.vertices[k])

\* C23: the pivot is the input point lowest in y (lowest in x on
\* a tie) and is the first hull vertex; the sorted points are in ascending
\* polar angle and points of one angle are in descending distance from the
\* pivot; only the farthest point of a ray can remain in the hull.
C23_SortStep ==
    (unit = "hull" /\ hull # <<>> /\ Len(points) >= 3) =>
        /\ PivotLowest(sorted_clone(points)[1], points)
        /\ AscendingAngle(VecGet(points, lowest_y_index(points)), sorted_clone(points))
        /\ FartherFirst(sorted_clone(points)[1], sorted_clone(points))
        /\ FarthestKept(sorted_clone(points)[1], points, hull[1])

====
